---- MODULE Spec2Model ----
(***************************************************************************)
(* A model of the mcp-go session engine (package mcp): the Server with its *)
(* handshake flag and capability registries, the receive loop that hands    *)
(* every inbound envelope to its own goroutine, the request handlers, the   *)
(* notification emitters and the newline-framed stdio transport.            *)
(*                                                                          *)
(* Byte strings (json.RawMessage ids, URIs, templates) are sequences of     *)
(* one-character strings; "\\u003c" stands for the six bytes of the JSON    *)
(* escape that encoding/json writes for "<".                                *)
(***************************************************************************)
EXTENDS Integers, Sequences, FiniteSets, TLC

VARIABLES
    transport,                 \* Server.transport: TRUE once Connect attached one
    loop,                      \* the handleMessages goroutine: "idle", "running"
    initialized,               \* Server.initialized (atomic.Bool)
    resources,                 \* Server.resources: sequence of descriptors
    resourceHandlers,          \* Server.resourceHandlers: uri -> handler
    resourceTemplates,         \* Server.resourceTemplates: template -> compiled template
    resourceTemplateHandlers,  \* Server.resourceTemplateHandlers: template -> handler
    tools,                     \* Server.tools: sequence of descriptors
    toolHandlers,              \* Server.toolHandlers: name -> handler
    prompts,                   \* Server.prompts: sequence of descriptors
    promptHandlers,            \* Server.promptHandlers: name -> handler
    regs,                      \* number of Add* calls made so far (names the closures)
    units,                     \* one record per `go s.handleMessage(ctx, msg)`
    stdout,                    \* bytes flushed to the peer: records and "\n" marks
    writeLock,                 \* StdioTransport.writeLock: 0 free, else the holder
    writer,                    \* StdioTransport.writer: bufio buffer not yet flushed
    callers,                   \* concurrent StdioTransport.Send calls (transport view)
    emitted,                   \* envelopes the notification emitters handed to Send
    reader,                    \* StdioTransport.reader's stream: "open", "tail", "eof", "error"
    ctx,                       \* the context given to Connect: "live", "cancelled"
    faults,                    \* Receive calls of the loop that returned the read's error
    dropped,                   \* the data of the Receive calls that returned an error
    mu,                        \* Server.mu: "free", or "held" by a registration
    probe                      \* a template and a uri given to Match, and its answer

vars == << transport, loop, initialized, resources, resourceHandlers,
           resourceTemplates, resourceTemplateHandlers, tools, toolHandlers,
           prompts, promptHandlers, regs, units, stdout, writeLock, writer,
           callers, emitted, reader, ctx, faults, dropped, mu, probe >>

registry == << resources, resourceHandlers, resourceTemplates,
               resourceTemplateHandlers, tools, toolHandlers, prompts,
               promptHandlers, regs >>

wire == << writeLock, writer, callers >>

feed == << reader, ctx, faults, dropped >>

(***************************************************************************)
(* Bounds of the model.                                                     *)
(***************************************************************************)
MaxMsgs == 2       \* envelopes the receive loop takes in one run
MaxDeep == 3       \* the same, in the runs whose peer sends few kinds of envelope
MaxRegs == 10      \* Add* calls the embedding program makes before Connect
MaxLater == 1      \* Add* calls it makes after Connect, beside running handlers
MaxNotes == 2      \* notifications emitted in one run
MaxCallers == 2    \* concurrent Send calls in the transport view
MaxFaults == 2     \* Receive calls that return an error in one run
MaxUriLen == 3     \* characters of a uri given to Match
MaxBad == 1        \* records of one run that Receive reads and does not decode

(***************************************************************************)
(* Protocol constants.                                                      *)
(***************************************************************************)
CodeParseError == -32700
CodeMethodNotFound == -32601
CodeInvalidParams == -32602
CodeInternalError == -32603
CodeNotInitialized == -32002

ProtocolVersion == "2024-11-05"

RequestMethods == { "resources/list", "resources/read", "tools/list",
                    "tools/call", "prompts/list", "prompts/get" }

ListMethods == { "resources/list", "tools/list", "prompts/list" }

KnownMethods == RequestMethods \cup { "initialize", "initialized" }

NotificationMethods == { "notifications/resources/list_changed",
                         "notifications/resources/updated",
                         "notifications/tools/list_changed",
                         "notifications/prompts/list_changed",
                         "notifications/message" }

(***************************************************************************)
(* Message (protocol.go): absent members are the empty sequence, a present  *)
(* result or error is a one-element sequence.  params.valid says whether    *)
(* json.Unmarshal of the params into the handler's struct succeeds (absent  *)
(* params do not); params.key is the name or uri member it decodes.         *)
(***************************************************************************)
NoId == <<>>
NoResult == <<>>
NoError == <<>>
NoParams == [valid |-> FALSE, key |-> <<>>]

\* What is written to the stream: the bytes of one encoded envelope, or the
\* "\n" that ends a record.
Record(data) == [newline |-> FALSE, data |-> << data >>]
NL == [newline |-> TRUE, data |-> <<>>]

Message(id, method, params, result, error) ==
    [id |-> id, method |-> method, params |-> params,
     result |-> result, error |-> error]

ErrorMessage(code, message) == [code |-> code, message |-> message]

EmptyMap == [k \in {} |-> k]

\* A map write that keeps the value a key already has.
MapPutIfAbsent(m, k, v) ==
    IF k \in DOMAIN m THEN m
    ELSE [x \in (DOMAIN m) \cup {k} |-> IF x = k THEN v ELSE m[x]]

\* m[k] = v of a Go map.
MapPut(m, k, v) == [x \in (DOMAIN m) \cup {k} |-> IF x = k THEN v ELSE m[x]]

(***************************************************************************)
(* Ids on the wire.  MarshalRaw is what json.Marshal does to a RawMessage   *)
(* member: the bytes are copied, with "<" inside written as its escape.     *)
(* IdValue is the JSON value a peer decodes from raw id bytes.              *)
(***************************************************************************)
MarshalRaw(raw) ==
    [i \in 1..Len(raw) |-> IF raw[i] = "<" THEN "\\u003c" ELSE raw[i]]

Unescape(c) == IF c = "\\u003c" THEN "<" ELSE c

IdValue(raw) ==
    IF raw = NoId THEN [kind |-> "absent", text |-> <<>>]
    ELSE IF raw[1] = "\""
         THEN [kind |-> "string",
               text |-> [i \in 1..(Len(raw) - 2) |-> Unescape(raw[i + 1])]]
         ELSE [kind |-> "number", text |-> raw]

\* Message.GetIDString: the normalised key, a string for every id.
GetIDString(raw) == IdValue(raw).text

\* json.Marshal of a Message, as StdioTransport.Send writes it.
Marshal(msg) == [msg EXCEPT !.id = MarshalRaw(msg.id)]

(***************************************************************************)
(* URIs and URI templates (resources.go).  The characters of the model are  *)
(* letters, ":", "/", "%", "." and the braces; a compiled regular           *)
(* expression is the sequence of its elements: a letter, ":" or "/" matches *)
(* itself, "." matches any character, and Group is the "([^/]+)" that       *)
(* NewResourceTemplate writes for a placeholder.                            *)
(***************************************************************************)
Group == "([^/]+)"

Braces == { "{", "}" }

SubSeqFrom(s, i) == SubSeq(s, i, Len(s))

\* The first index p >= i where s continues with `old`, or 0.
RECURSIVE IndexFrom(_, _, _)
IndexFrom(s, old, i) ==
    IF i + Len(old) - 1 > Len(s) THEN 0
    ELSE IF SubSeq(s, i, i + Len(old) - 1) = old THEN i
    ELSE IndexFrom(s, old, i + 1)

\* strings.Replace(s, old, new, 1)
ReplaceFirst(s, old, new) ==
    LET p == IndexFrom(s, old, 1) IN
    IF p = 0 THEN s
    ELSE SubSeq(s, 1, p - 1) \o new \o SubSeqFrom(s, p + Len(old))

\* The end of the run of non-brace characters that starts at i (i - 1 if none).
RECURSIVE RunEnd(_, _)
RunEnd(s, i) ==
    IF i > Len(s) \/ s[i] \in Braces THEN i - 1 ELSE RunEnd(s, i + 1)

\* paramPattern.FindAllStringSubmatch(template, -1): the names inside every
\* leftmost, non-overlapping match of \{([^{}]+)\}, scanning from i.
RECURSIVE FindAllParams(_, _)
FindAllParams(s, i) ==
    IF i > Len(s) THEN <<>>
    ELSE LET e == RunEnd(s, i + 1) IN
         IF s[i] = "{" /\ e >= i + 1 /\ e + 1 <= Len(s) /\ s[e + 1] = "}"
         THEN << SubSeq(s, i + 1, e) >> \o FindAllParams(s, e + 2)
         ELSE FindAllParams(s, i + 1)

\* The loop of NewResourceTemplate that rewrites each placeholder, in order.
RECURSIVE ReplaceParams(_, _)
ReplaceParams(pattern, names) ==
    IF names = <<>> THEN pattern
    ELSE ReplaceParams(
             ReplaceFirst(pattern, <<"{">> \o Head(names) \o <<"}">>, <<Group>>),
             Tail(names))

NewResourceTemplate(template) ==
    LET names == FindAllParams(template, 1) IN
    [Template |-> template,
     regex |-> ReplaceParams(template, names),
     paramNames |-> names]

\* One regular-expression element against one character.
ElemMatches(e, c) == IF e = "." THEN TRUE ELSE e = c

\* The end of the run of characters other than "/" that starts at j
\* (j - 1 if none): the longest capture of "([^/]+)" at j.
RECURSIVE SegmentEnd(_, _)
SegmentEnd(uri, j) ==
    IF j > Len(uri) \/ uri[j] = "/" THEN j - 1 ELSE SegmentEnd(uri, j + 1)

\* Leftmost-first match of regex[i..] against uri[j..], anchored at the end:
\* the set is empty when there is no match, else it holds the one sequence of
\* group captures the matcher reports (a group is greedy: the longest
\* capture that lets the rest match).
RECURSIVE MatchFrom(_, _, _, _)
RECURSIVE GroupFrom(_, _, _, _, _)
MatchFrom(regex, i, uri, j) ==
    IF i > Len(regex) THEN (IF j > Len(uri) THEN { <<>> } ELSE {})
    ELSE IF regex[i] = Group
         THEN GroupFrom(regex, i, uri, j, SegmentEnd(uri, j))
         ELSE IF j <= Len(uri) /\ ElemMatches(regex[i], uri[j])
              THEN MatchFrom(regex, i + 1, uri, j + 1)
              ELSE {}
GroupFrom(regex, i, uri, j, e) ==
    IF e < j THEN {}
    ELSE LET rest == MatchFrom(regex, i + 1, uri, e + 1) IN
         IF rest # {}
         THEN { << SubSeq(uri, j, e) >> \o r : r \in rest }
         ELSE GroupFrom(regex, i, uri, j, e - 1)

\* ResourceTemplate.Match: the params map (later names overwrite earlier
\* ones), or no match.
RECURSIVE ParamsMap(_, _, _)
ParamsMap(names, caps, i) ==
    IF i > Len(names) THEN EmptyMap
    ELSE LET rest == ParamsMap(names, caps, i + 1) IN
         IF names[i] \in DOMAIN rest THEN rest ELSE MapPut(rest, names[i], caps[i])

Matches(t, uri) == MatchFrom(t.regex, 1, uri, 1) # {}

Match(t, uri) ==
    LET caps == CHOOSE c \in MatchFrom(t.regex, 1, uri, 1) : TRUE IN
    ParamsMap(t.paramNames, caps, 1)

\* url.Parse(params.URI) of resources.go:147, for a uri made of letters,
\* digits and ":", "/", "%", "+", "-", ".".  The scheme is the run of
\* letters (after the first: digits, "+", "-", "." too) that a ":" ends,
\* kept in lower case; a ":" in front is an error, and so is a ":" in the
\* first segment of a uri without a scheme.  Under a scheme, what does not
\* start with "/" is stored as it is (Opaque); else "//" opens the
\* authority, which runs to the next "/", and the rest is the path.  A "%"
\* of the path must start an escape of two hex digits; one of the host
\* must escape a byte of 0x80 and more, or be "%25"; what follows the last
\* ":" of the host must be digits.
UrlParse(uri) ==
    LET n == Len(uri)
        Lowers == << "a", "b", "c", "d", "e", "f", "g", "h", "i", "j", "k",
                     "l", "m", "n", "o", "p", "q", "r", "s", "t", "u", "v",
                     "w", "x", "y", "z" >>
        Uppers == << "A", "B", "C", "D", "E", "F", "G", "H", "I", "J", "K",
                     "L", "M", "N", "O", "P", "Q", "R", "S", "T", "U", "V",
                     "W", "X", "Y", "Z" >>
        Digits == { "0", "1", "2", "3", "4", "5", "6", "7", "8", "9" }
        IsLetter(c) == \E i \in 1..26 : c = Lowers[i] \/ c = Uppers[i]
        ToLower(c) ==
            IF \E i \in 1..26 : c = Uppers[i]
            THEN Lowers[CHOOSE i \in 1..26 : c = Uppers[i]] ELSE c
        ToUpper(c) ==
            IF \E i \in 1..26 : c = Lowers[i]
            THEN Uppers[CHOOSE i \in 1..26 : c = Lowers[i]] ELSE c
        IsHex(c) == c \in Digits \/ \E i \in 1..6 : c = Lowers[i] \/ c = Uppers[i]
        \* getScheme: the first character that cannot be part of a scheme.
        stops == { i \in 1..n :
                      ~(IsLetter(uri[i])
                        \/ (i > 1 /\ uri[i] \in Digits \cup { "+", "-", "." })) }
        stop == IF stops = {} THEN 0
                ELSE CHOOSE i \in stops : \A j \in stops : i <= j
        missing == stop = 1 /\ uri[1] = ":"
        colon == IF stop > 1 /\ uri[stop] = ":" THEN stop ELSE 0
        scheme == [i \in 1..(colon - 1) |-> ToLower(uri[i])]
        rest == SubSeq(uri, colon + 1, n)
        rooted == rest # <<>> /\ rest[1] = "/"
        opaque == scheme # <<>> /\ ~rooted
        slash == IndexFrom(rest, << "/" >>, 1)
        segment == IF slash = 0 THEN rest ELSE SubSeq(rest, 1, slash - 1)
        withAuthority ==
            /\ Len(rest) >= 2 /\ SubSeq(rest, 1, 2) = << "/", "/" >>
            /\ scheme # <<>> \/ ~(Len(rest) >= 3 /\ rest[3] = "/")
        end == IndexFrom(rest, << "/" >>, 3)
        host == IF ~withAuthority THEN <<>>
                ELSE IF end = 0 THEN SubSeq(rest, 3, Len(rest))
                ELSE SubSeq(rest, 3, end - 1)
        path == IF opaque THEN <<>>
                ELSE IF ~withAuthority THEN rest
                ELSE IF end = 0 THEN <<>>
                ELSE SubSeq(rest, end, Len(rest))
        colons == { i \in 1..Len(host) : host[i] = ":" }
        portOk == \A i \in colons :
                      (\A j \in colons : j <= i) =>
                          \A k \in (i + 1)..Len(host) : host[k] \in Digits
        hostOk ==
            /\ portOk
            /\ \A i \in 1..Len(host) :
                   host[i] = "%" =>
                       /\ i + 2 <= Len(host)
                       /\ IsHex(host[i + 1]) /\ IsHex(host[i + 2])
                       /\ \/ host[i + 1] \notin { "0", "1", "2", "3", "4", "5",
                                                  "6", "7" }
                          \/ host[i + 1] = "2" /\ host[i + 2] = "5"
        pathOk == \A i \in 1..Len(path) :
                      path[i] = "%" =>
                          /\ i + 2 <= Len(path)
                          /\ IsHex(path[i + 1]) /\ IsHex(path[i + 2])
        \* URL.String escapes the host again: its escapes in upper case.
        escaped == [i \in 1..Len(host) |->
                       IF (i > 1 /\ host[i - 1] = "%") \/ (i > 2 /\ host[i - 2] = "%")
                       THEN ToUpper(host[i]) ELSE host[i]]
        omitHost == ~withAuthority /\ scheme # <<>> /\ rooted
    IN  [ok |-> /\ ~missing
                /\ ~(scheme = <<>> /\ ~rooted /\ \E i \in 1..Len(segment) : segment[i] = ":")
                /\ hostOk
                /\ pathOk,
         string |->
             (IF scheme = <<>> THEN <<>> ELSE scheme \o << ":" >>)
             \o (IF opaque THEN rest
                 ELSE (IF /\ scheme # <<>> \/ host # <<>>
                          /\ ~(omitHost /\ host = <<>>)
                          /\ host # <<>> \/ path # <<>>
                       THEN << "/", "/" >> \o escaped ELSE <<>>)
                      \o path)]

\* url.Parse returns no error.
UrlParseOk(uri) == UrlParse(uri).ok

\* uri.String() of the url that url.Parse returned.
UrlString(uri) == UrlParse(uri).string

(***************************************************************************)
(* What the peer and the embedding program supply.                          *)
(***************************************************************************)
ToolName == << "c" >>
PromptName == << "g" >>
UnknownName == << "z" >>
UriA == << "u", ":", "a" >>
UriB == << "u", ":", "b" >>
UriOther == << "v", ":", "a" >>
UriUpper == << "U", ":", "a" >>
UriUpperB == << "U", ":", "b" >>
UriBad == << "u", ":", "/", "%" >>
UriC == << "u", ":", "c" >>
TemplateX == << "u", ":", "{", "x", "}" >>
TemplateY == << "{", "y", "}", ":", "c" >>

\* The Add* calls of the embedding program, in its order: a template, a
\* static resource that the template matches too, a tool, a prompt, the tool
\* again, a static resource whose uri has an upper-case scheme, then the
\* first static resource, the prompt and the template again, and a second
\* template, which matches some of the uris the first one matches.
Program ==
    << [add |-> "template", key |-> TemplateX],
       [add |-> "resource", key |-> UriA],
       [add |-> "tool", key |-> ToolName],
       [add |-> "prompt", key |-> PromptName],
       [add |-> "tool", key |-> ToolName],
       [add |-> "resource", key |-> UriUpperB],
       [add |-> "resource", key |-> UriA],
       [add |-> "prompt", key |-> PromptName],
       [add |-> "template", key |-> TemplateX],
       [add |-> "template", key |-> TemplateY] >>

ProgramLen == IF MaxRegs < Len(Program) THEN MaxRegs ELSE Len(Program)

\* The Add* calls it makes after Connect, beside the requests: a static
\* resource not registered before, then the template, the tool and the
\* prompt once more.
Later ==
    << [add |-> "resource", key |-> UriB],
       [add |-> "template", key |-> TemplateX],
       [add |-> "tool", key |-> ToolName],
       [add |-> "prompt", key |-> PromptName] >>

LaterLen == IF MaxLater < Len(Later) THEN MaxLater ELSE Len(Later)

\* All the Add* calls of a run, in their order: the ordinal of a call names
\* the handler it registers.
Calls == SubSeq(Program, 1, ProgramLen) \o Later

Params(key) == [valid |-> TRUE, key |-> key]

\* No template and no uri have been given to Match.
NoProbe == [template |-> <<>>, uri |-> <<>>, state |-> "none",
            compiled |-> <<>>, ok |-> FALSE, params |-> EmptyMap]

\* The ids the peer gives its 1st, 2nd, ... envelope: the string "<", the
\* number 1, the string "1", the number 2.
PeerIds == << << "\"", "<", "\"" >>, << "1" >>, << "\"", "1", "\"" >>, << "2" >> >>

PeerId(k) == PeerIds[((k - 1) % Len(PeerIds)) + 1]

\* The method and params of the envelopes the peer may send: every method
\* of the routing table, an unknown one and none, each with params that
\* decode and name a registered or an unregistered capability, and with
\* params that do not decode.
InboundCalls ==
    { << m, NoParams >> : m \in ListMethods \cup { "", "initialized", "bogus/method" } }
    \cup { << "initialize", Params(<<>>) >>, << "initialize", NoParams >> }
    \cup { << "tools/call", p >> :
               p \in { Params(ToolName), Params(UnknownName), NoParams } }
    \cup { << "prompts/get", p >> :
               p \in { Params(PromptName), Params(UnknownName), NoParams } }
    \cup { << "resources/read", p >> :
               p \in { Params(UriA), Params(UriB), Params(UriOther),
                       Params(UriUpper), Params(UriBad), NoParams } }

\* Each of them with an id and without: << method, params, with id >>.
Inbound == { << r[1], r[2], b >> : r \in InboundCalls, b \in BOOLEAN }

\* What a registered handler may do when it is invoked.
Outcomes(hkind) ==
    IF hkind = "prompt" THEN { "ok", "err", "badjson" } ELSE { "ok", "err" }

(***************************************************************************)
(* NewServer, Connect, Close and the registration calls.                    *)
(***************************************************************************)
InitServer ==
    /\ transport = FALSE
    /\ loop = "idle"
    /\ initialized = FALSE
    /\ resources = <<>>
    /\ resourceHandlers = EmptyMap
    /\ resourceTemplates = EmptyMap
    /\ resourceTemplateHandlers = EmptyMap
    /\ tools = <<>>
    /\ toolHandlers = EmptyMap
    /\ prompts = <<>>
    /\ promptHandlers = EmptyMap
    /\ regs = 0
    /\ units = <<>>
    /\ stdout = <<>>
    /\ writeLock = 0
    /\ writer = <<>>
    /\ callers = <<>>
    /\ emitted = <<>>
    /\ reader = "open"
    /\ ctx = "live"
    /\ faults = 0
    /\ dropped = <<>>
    /\ mu = "free"

Init == InitServer /\ probe = NoProbe

Connect ==
    /\ ~transport
    /\ regs = ProgramLen
    /\ transport' = TRUE
    /\ loop' = "running"
    /\ UNCHANGED << initialized, registry, units, stdout, wire, emitted,
                    feed, mu, probe >>

\* Server.Close calls StdioTransport.Close, which does nothing.
Close ==
    /\ transport
    /\ UNCHANGED vars

\* An AddTool that appends the descriptor and keeps no handler.
AddToolListOnly(name) ==
    /\ tools' = Append(tools, [name |-> name, description |-> regs + 1])
    /\ regs' = regs + 1
    /\ UNCHANGED << resources, resourceHandlers, resourceTemplates,
                    resourceTemplateHandlers, toolHandlers, prompts,
                    promptHandlers >>

\* A registration names its closure by its ordinal among the Add* calls.
AddTool(name) ==
    /\ tools' = Append(tools, [name |-> name, description |-> regs + 1])
    /\ toolHandlers' = MapPut(toolHandlers, name, regs + 1)
    /\ regs' = regs + 1
    /\ UNCHANGED << resources, resourceHandlers, resourceTemplates,
                    resourceTemplateHandlers, prompts, promptHandlers >>

AddPrompt(name) ==
    /\ prompts' = Append(prompts, [name |-> name, description |-> regs + 1])
    /\ promptHandlers' = MapPut(promptHandlers, name, regs + 1)
    /\ regs' = regs + 1
    /\ UNCHANGED << resources, resourceHandlers, resourceTemplates,
                    resourceTemplateHandlers, tools, toolHandlers >>

AddResource(uri) ==
    /\ resources' = Append(resources, [uri |-> uri, name |-> regs + 1])
    /\ resourceHandlers' = MapPut(resourceHandlers, uri, regs + 1)
    /\ regs' = regs + 1
    /\ UNCHANGED << resourceTemplates, resourceTemplateHandlers, tools,
                    toolHandlers, prompts, promptHandlers >>

AddResourceTemplate(template) ==
    /\ resourceTemplates' =
           MapPut(resourceTemplates, template, NewResourceTemplate(template))
    /\ resourceTemplateHandlers' =
           MapPut(resourceTemplateHandlers, template, regs + 1)
    /\ resources' = Append(resources, [uri |-> template, name |-> regs + 1])
    /\ regs' = regs + 1
    /\ UNCHANGED << resourceHandlers, tools, toolHandlers, prompts,
                    promptHandlers >>

(***************************************************************************)
(* Responses.  sendError and sendResult give the envelopes the call hands   *)
(* to transport.Send: none when the request carried no id.                  *)
(***************************************************************************)
Result(kind, isError, body, marshalable) ==
    [kind |-> kind, isError |-> isError, body |-> body,
     marshalable |-> marshalable]

\* A sendError that lacks the check for a notification's absent id.
sendErrorUnchecked(id, code, message) ==
    << Message(id, "", NoParams, NoResult, << ErrorMessage(code, message) >>) >>

sendError(id, code, message) ==
    IF id = NoId THEN <<>>
    ELSE << Message(id, "", NoParams, NoResult, << ErrorMessage(code, message) >>) >>

\* A sendResult that lacks the check for a notification's absent id.
sendResultUnchecked(id, result) ==
    << Message(id, "", NoParams, << result >>, NoError) >>

\* A sendResult that answers under the normalised key of GetIDString, a
\* string whatever the request's id was.
sendResultKeyed(id, result) ==
    IF id = NoId THEN <<>>
    ELSE << Message(<< "\"" >> \o GetIDString(id) \o << "\"" >>, "", NoParams,
                    << result >>, NoError) >>

sendResult(id, result) ==
    IF id = NoId THEN <<>>
    ELSE IF ~result.marshalable
         THEN sendError(id, CodeInternalError, "Internal error")
         ELSE << Message(id, "", NoParams, << result >>, NoError) >>

(***************************************************************************)
(* A unit is one `go s.handleMessage(ctx, msg)`.  pc is "start", then the   *)
(* name of the method whose handler runs, "resources/match" (the template   *)
(* loop of handleReadResource), "invoke" (the registered handler is about   *)
(* to be called), "send" (inside transport.Send) and "done".  sawInit is    *)
(* what initialized.Load() returned; invoked lists the closures called and  *)
(* returned says how the last call ended; out lists the records written for *)
(* this unit; arrived is the number of registrations that had completed     *)
(* when the loop received the envelope, and after the number of records it  *)
(* had failed to decode by then; rlock and runlock count the unit's calls   *)
(* of s.mu.RLock() and s.mu.RUnlock().                                      *)
(***************************************************************************)

NewUnit(msg) ==
    [msg |-> msg, pc |-> "start", sawInit |-> "unread", handler |-> 0,
     hkind |-> "", hparams |-> EmptyMap, uri |-> <<>>, invoked |-> <<>>,
     returned |-> "", resp |-> <<>>, out |-> <<>>, arrived |-> regs,
     after |-> Len(dropped), rlock |-> 0, runlock |-> 0]

\* The unit has called s.mu.RLock() and s.mu.RUnlock() this many times more.
Locks(unit, taken, released) ==
    [unit EXCEPT !.rlock = @ + taken, !.runlock = @ + released]

\* The handler hands the envelopes to Send and returns.
Finish(unit, envs) ==
    [unit EXCEPT !.resp = envs,
                 !.pc = IF envs = <<>> THEN "done" ELSE "send"]

\* A gate that only the methods of the routing table pass through.
GateRejectsKnownOnly(flag, method) ==
    ~flag /\ method # "initialize" /\ method \in KnownMethods

\* server.go:109: the handshake gate.
GateRejects(flag, method) == ~flag /\ method # "initialize"

\* A handleMessage that lacks the return for an envelope without a method.
DispatchEmptyMethod(unit, flag) ==
    LET m == unit.msg
        seen == [unit EXCEPT !.sawInit = IF flag THEN "yes" ELSE "no"]
    IN  IF GateRejects(flag, m.method)
        THEN Finish(seen, sendError(m.id, CodeNotInitialized,
                                    "Server not initialized"))
        ELSE IF m.method = "initialized" THEN [seen EXCEPT !.pc = "done"]
        ELSE IF m.method \in KnownMethods THEN [seen EXCEPT !.pc = m.method]
        ELSE Finish(seen, sendError(m.id, CodeMethodNotFound,
                                    "Method not found"))

\* Server.handleMessage up to the call of the method's handler.
Dispatch(unit, flag) ==
    LET m == unit.msg
        seen == [unit EXCEPT !.sawInit = IF flag THEN "yes" ELSE "no"]
    IN  IF m.method = "" THEN [unit EXCEPT !.pc = "done"]
        ELSE IF GateRejects(flag, m.method)
        THEN Finish(seen, sendError(m.id, CodeNotInitialized,
                                    "Server not initialized"))
        ELSE IF m.method = "initialized" THEN [seen EXCEPT !.pc = "done"]
        ELSE IF m.method \in KnownMethods THEN [seen EXCEPT !.pc = m.method]
        ELSE Finish(seen, sendError(m.id, CodeMethodNotFound,
                                    "Method not found"))

\* A loop that calls handleMessage itself and waits for it to return.
LoopHeldUntilDone(us) == \E u \in 1..Len(us) : us[u].pc # "done"

\* server.go:97: the loop starts a goroutine for the envelope and goes back
\* to Receive; no envelope in hand holds it.
LoopHeld(us) == FALSE

Receive(inbound, max) ==
    /\ loop = "running"
    /\ reader = "open"
    /\ ~LoopHeld(units)
    /\ Len(units) < max
    /\ \E r \in inbound :
           LET id == IF r[3] THEN PeerId(Len(units) + 1) ELSE NoId IN
           units' = Append(units,
                           NewUnit(Message(id, r[1], r[2], NoResult, NoError)))
    /\ UNCHANGED << transport, loop, initialized, registry, stdout, wire,
                    emitted,
                    feed, mu, probe >>

InitializeResult ==
    Result("initialize", FALSE, << ProtocolVersion >>, TRUE)

\* A handleInitialize that clears the flag when the params do not decode.
InitializeStoreResets(valid, flag) == valid

\* A handleInitialize that stores the flag before it decodes the params.
InitializeStoreAlways(valid, flag) == TRUE

\* A handleInitialize that answers and does not store the flag.
InitializeStoreNever(valid, flag) == flag

\* The value of the flag when handleInitialize returns.
InitializeStore(valid, flag) == IF valid THEN TRUE ELSE flag

\* Server.handleInitialize, the flag apart.
handleInitialize(unit) ==
    LET m == unit.msg IN
    IF ~m.params.valid
    THEN Finish(unit, sendError(m.id, CodeParseError, "Parse error"))
    ELSE Finish(unit, sendResult(m.id, InitializeResult))

\* handleListResources, handleListTools, handleListPrompts: the copy taken
\* under the read lock is sent as the result.
handleList(unit, snapshot) ==
    Finish(Locks(unit, 1, 1),
           sendResult(unit.msg.id, Result("list", FALSE, snapshot, TRUE)))

\* A handler found in a registry, about to be called.
Found(unit, hkind, handler, hparams) ==
    [unit EXCEPT !.pc = "invoke", !.hkind = hkind, !.handler = handler,
                 !.hparams = hparams]

\* handleCallTool up to the call of the tool's handler.
handleCallTool(unit, handlers) ==
    LET m == unit.msg IN
    IF ~m.params.valid
    THEN Finish(unit, sendError(m.id, CodeParseError, "Parse error"))
    ELSE IF m.params.key \notin DOMAIN handlers
    THEN Finish(Locks(unit, 1, 1),
                sendError(m.id, CodeInvalidParams, "Tool not found"))
    ELSE Found(Locks(unit, 1, 1), "tool", handlers[m.params.key], EmptyMap)

\* A handleCallTool that reports the handler's error as prompts/get does.
ToolReturnedAsError(unit, outcome) ==
    LET id == unit.msg.id IN
    IF outcome = "err"
    THEN Finish(unit, sendError(id, CodeInternalError, "failed"))
    ELSE Finish(unit, sendResult(id, Result("tool", FALSE,
                    << [type |-> "text", text |-> "ok"] >>, TRUE)))

\* handleCallTool from the handler's return on.
ToolReturned(unit, outcome) ==
    LET id == unit.msg.id IN
    IF outcome = "err"
    THEN Finish(unit, sendResult(id, Result("tool", TRUE,
                    << [type |-> "text", text |-> "Error: failed"] >>, TRUE)))
    ELSE Finish(unit, sendResult(id, Result("tool", FALSE,
                    << [type |-> "text", text |-> "ok"] >>, TRUE)))

\* handleGetPrompt up to the call of the prompt's handler.
handleGetPrompt(unit, handlers) ==
    LET m == unit.msg IN
    IF ~m.params.valid
    THEN Finish(unit, sendError(m.id, CodeParseError, "Parse error"))
    ELSE IF m.params.key \notin DOMAIN handlers
    THEN Finish(Locks(unit, 1, 1),
                sendError(m.id, CodeInvalidParams, "Prompt not found"))
    ELSE Found(Locks(unit, 1, 1), "prompt", handlers[m.params.key], EmptyMap)

\* A handleGetPrompt that reports the handler's error as tools/call does.
PromptReturnedFlagged(unit, outcome) ==
    LET id == unit.msg.id IN
    IF outcome = "err"
    THEN Finish(unit, sendResult(id, Result("prompt", TRUE,
                    << [type |-> "text", text |-> "Error: failed"] >>, TRUE)))
    ELSE Finish(unit, sendResult(id, Result("prompt", FALSE,
                    << [role |-> "user"] >>, outcome # "badjson")))

\* handleGetPrompt from the handler's return on; "badjson" is a handler that
\* returns a PromptMessage whose Content json.Marshal refuses.
PromptReturned(unit, outcome) ==
    LET id == unit.msg.id IN
    IF outcome = "err"
    THEN Finish(unit, sendError(id, CodeInternalError, "failed"))
    ELSE Finish(unit, sendResult(id, Result("prompt", FALSE,
                    << [role |-> "user"] >>, outcome # "badjson")))

\* A template loop that calls the handler of the template it found without
\* releasing the read lock first.
matchTemplateKeepsLock(unit, templates, templateHandlers) ==
    LET hits == { t \in DOMAIN templates : Matches(templates[t], unit.uri) } IN
    IF hits = {}
    THEN { Finish(Locks(unit, 1, 1),
                  sendError(unit.msg.id, CodeInvalidParams,
                            "Resource not found")) }
    ELSE { Found(Locks(unit, 1, 0), "template", templateHandlers[t],
                 Match(templates[t], unit.uri)) : t \in hits }

\* A template loop that passes the handler of one matching template the
\* parameters another matching template extracted.
matchTemplateMixed(unit, templates, templateHandlers) ==
    LET hits == { t \in DOMAIN templates : Matches(templates[t], unit.uri) } IN
    IF hits = {}
    THEN { Finish(Locks(unit, 1, 1),
                  sendError(unit.msg.id, CodeInvalidParams,
                            "Resource not found")) }
    ELSE { Found(Locks(unit, 1, 1), "template", templateHandlers[t],
                 Match(templates[other], unit.uri)) : t \in hits, other \in hits }

\* The template loop of handleReadResource (resources.go:175-202), entered
\* with the parsed uri: Go ranges over the map in an unspecified order, so
\* any matching template may be the one found.  The read lock taken before
\* the loop is released before the handler found is called, or after the
\* loop.  The set of ways it can go.
matchTemplate(unit, templates, templateHandlers) ==
    LET hits == { t \in DOMAIN templates : Matches(templates[t], unit.uri) } IN
    IF hits = {}
    THEN { Finish(Locks(unit, 1, 1),
                  sendError(unit.msg.id, CodeInvalidParams,
                            "Resource not found")) }
    ELSE { Found(Locks(unit, 1, 1), "template", templateHandlers[t],
                 Match(templates[t], unit.uri)) : t \in hits }

\* handleReadResource up to the end of the static lookup
\* (resources.go:135-173): the params are decoded and the uri is parsed with
\* no lock held; the lookup in s.resourceHandlers is made under the read
\* lock, which is released before the handler found is called and before
\* the template loop is entered.
handleReadResource(unit, handlers) ==
    LET m == unit.msg IN
    IF ~m.params.valid
    THEN Finish(unit, sendError(m.id, CodeParseError, "Parse error"))
    ELSE IF ~UrlParseOk(m.params.key)
    THEN Finish(unit, sendError(m.id, CodeInvalidParams, "Invalid URI"))
    ELSE LET uri == UrlString(m.params.key) IN
         IF uri \in DOMAIN handlers
         THEN Found(Locks([unit EXCEPT !.uri = uri], 1, 1), "resource",
                    handlers[uri], EmptyMap)
         ELSE [Locks([unit EXCEPT !.uri = uri], 1, 1) EXCEPT
                   !.pc = "resources/match"]

\* A handleReadResource whose static branch lacks its return and goes on to
\* the not-found answer.
ResourceReturnedFallsThrough(unit, outcome) ==
    LET id == unit.msg.id
        more == IF unit.hkind = "resource"
                THEN sendError(id, CodeInvalidParams, "Resource not found")
                ELSE <<>>
    IN  IF outcome = "err"
        THEN Finish(unit, sendError(id, CodeInternalError,
                                    "Error reading resource: failed") \o more)
        ELSE Finish(unit, sendResult(id, Result("contents", FALSE,
                        << [uri |-> unit.uri, by |-> unit.handler,
                            params |-> unit.hparams] >>, TRUE)) \o more)

\* handleReadResource from the handler's return on.
ResourceReturned(unit, outcome) ==
    LET id == unit.msg.id IN
    IF outcome = "err"
    THEN Finish(unit, sendError(id, CodeInternalError,
                                "Error reading resource: failed"))
    ELSE Finish(unit, sendResult(id, Result("contents", FALSE,
                    << [uri |-> unit.uri, by |-> unit.handler,
                        params |-> unit.hparams] >>, TRUE)))

\* The switch of handleMessage: the handler of the unit's method runs up to
\* the call of a registered handler, to its Send, or to the template loop.
Route(unit) ==
    CASE unit.pc = "resources/list" -> handleList(unit, resources)
      [] unit.pc = "tools/list" -> handleList(unit, tools)
      [] unit.pc = "prompts/list" -> handleList(unit, prompts)
      [] unit.pc = "resources/read" ->
             handleReadResource(unit, resourceHandlers)
      [] unit.pc = "tools/call" -> handleCallTool(unit, toolHandlers)
      [] unit.pc = "prompts/get" -> handleGetPrompt(unit, promptHandlers)
      [] OTHER -> unit

\* An RLock that does not wait for a registration to finish.
CanRLockAlways(m) == TRUE

\* s.mu.RLock() returns once no registration holds the lock.
CanRLock(m) == m = "free"

\* Server.handleMessage up to the first operation the goroutine shares with
\* others after it has loaded the flag (server.go:109): the s.mu.RLock() of
\* the request's handler, where the unit stands with its pc at the method
\* until it gets the lock, or the Store of handleInitialize.  A handler that
\* returns before its RLock (the gate refused, the params do not decode,
\* the uri does not parse) runs to its Send in this step: it touches
\* nothing shared in between.
handleMessage(u) ==
    LET d == Dispatch(units[u], initialized)
        takesRLock ==
            \/ d.pc \in ListMethods
            \/ d.pc \in { "tools/call", "prompts/get" } /\ d.msg.params.valid
            \/ /\ d.pc = "resources/read"
               /\ d.msg.params.valid
               /\ UrlParseOk(d.msg.params.key)
    IN
    /\ units[u].pc = "start"
    /\ units' = [units EXCEPT ![u] = IF takesRLock THEN d ELSE Route(d)]
    /\ UNCHANGED << transport, loop, initialized, registry, stdout, wire,
                    emitted, feed, mu, probe >>

\* The handler of a request from its s.mu.RLock() to the RUnlock that
\* follows it (tools.go:30-33, 59-61, prompts.go:149-152, 178-180,
\* resources.go:119-122, 154-156): it gets the read lock once no
\* registration holds s.mu, reads the registry, releases the lock, and goes
\* on to the call of the handler found, to its Send or to the template loop.
handleRequest(u) ==
    /\ units[u].pc \in RequestMethods
    /\ CanRLock(mu)
    /\ units' = [units EXCEPT ![u] = Route(units[u])]
    /\ UNCHANGED << transport, loop, initialized, registry, stdout, wire,
                    emitted, feed, mu, probe >>

\* Server.handleInitialize (server.go:138-170), called by a unit that has
\* loaded the flag: the params are decoded, the flag is stored (line 166)
\* and the answer is handed to Send.
handleInitializeCall(u) ==
    /\ units[u].pc = "initialize"
    /\ initialized' = InitializeStore(units[u].msg.params.valid, initialized)
    /\ units' = [units EXCEPT ![u] = handleInitialize(units[u])]
    /\ UNCHANGED << transport, loop, registry, stdout, wire, emitted,
                    feed, mu, probe >>

\* The template loop of handleReadResource, entered after the static lookup
\* found nothing and released the read lock: it takes the read lock again,
\* so a registration may have completed in between.
handleReadResourceTemplates(u) ==
    /\ units[u].pc = "resources/match"
    /\ CanRLock(mu)
    /\ \E next \in matchTemplate(units[u], resourceTemplates,
                                  resourceTemplateHandlers) :
           units' = [units EXCEPT ![u] = next]
    /\ UNCHANGED << transport, loop, initialized, registry, stdout, wire,
                    emitted, feed, mu, probe >>

Returned(unit, outcome) ==
    CASE unit.hkind = "tool" -> ToolReturned(unit, outcome)
      [] unit.hkind = "prompt" -> PromptReturned(unit, outcome)
      [] OTHER -> ResourceReturned(unit, outcome)

\* The registered handler runs and returns.
invoke(u) ==
    /\ units[u].pc = "invoke"
    /\ \E outcome \in Outcomes(units[u].hkind) :
           units' = [units EXCEPT ![u] =
               Returned([@ EXCEPT !.invoked = Append(@, units[u].handler),
                                  !.returned = outcome],
                        outcome)]
    /\ UNCHANGED << transport, loop, initialized, registry, stdout, wire,
                    emitted,
                    feed, mu, probe >>

\* StdioTransport.Send as the session sees it: the record and its newline
\* are written and flushed inside one hold of writeLock.
Send(u) ==
    LET unit == units[u]
        data == Marshal(Head(unit.resp))
    IN  /\ unit.pc = "send"
        /\ writeLock = 0
        /\ stdout' = stdout \o << Record(data), NL >>
        /\ units' = [units EXCEPT ![u] =
               [unit EXCEPT !.out = Append(@, data),
                            !.resp = Tail(@),
                            !.pc = IF Tail(unit.resp) = <<>>
                                   THEN "done" ELSE "send"]]
        /\ UNCHANGED << transport, loop, initialized, registry, wire, emitted,
                    feed, mu, probe >>

\* The embedding program registers its capabilities, then connects.
Setup ==
    /\ ~transport
    /\ regs < ProgramLen
    /\ LET call == Program[regs + 1] IN
           \/ call.add = "template" /\ AddResourceTemplate(call.key)
           \/ call.add = "resource" /\ AddResource(call.key)
           \/ call.add = "tool" /\ AddTool(call.key)
           \/ call.add = "prompt" /\ AddPrompt(call.key)
    /\ UNCHANGED << transport, loop, initialized, units, stdout, wire, emitted,
                    feed, mu, probe >>

Next ==
    \/ Setup
    \/ Connect
    \/ Close
    \/ Receive(Inbound, MaxMsgs)
    \/ \E u \in 1..Len(units) : handleMessage(u)
    \/ \E u \in 1..Len(units) : handleRequest(u)
    \/ \E u \in 1..Len(units) : handleInitializeCall(u)
    \/ \E u \in 1..Len(units) : handleReadResourceTemplates(u)
    \/ \E u \in 1..Len(units) : invoke(u)
    \/ \E u \in 1..Len(units) : Send(u)

Spec == Init /\ [][Next]_vars

(***************************************************************************)
(* The notification emitters.  Each builds an envelope and returns what     *)
(* transport.Send returns; emitted keeps, per call, the envelope handed to  *)
(* Send (none when json.Marshal refused the params) and the value of the    *)
(* flag at the call.                                                        *)
(***************************************************************************)
\* A notification numbered from Server.nextID.
NotificationNumbered(method, params) ==
    Message(<< "1" >>, method, params, NoResult, NoError)

\* The envelope the emitters build: JSONRPC, Method and, for some, Params.
Notification(method, params) ==
    Message(NoId, method, params, NoResult, NoError)

\* An emitter's call, with the envelopes it hands to Send.
Emit(envs) ==
    /\ transport
    /\ Len(emitted) < MaxNotes
    /\ writeLock = 0
    /\ stdout' = stdout \o
           (IF envs = <<>> THEN <<>> ELSE << Record(Marshal(envs[1])), NL >>)
    /\ emitted' = Append(emitted, [sent |-> envs, during |-> initialized])
    /\ UNCHANGED << transport, loop, initialized, registry, units, wire,
                    feed, mu, probe >>

NotifyResourcesChanged ==
    Emit(<< Notification("notifications/resources/list_changed", NoParams) >>)

NotifyResourceUpdated(uri) ==
    Emit(<< Notification("notifications/resources/updated", Params(uri)) >>)

NotifyToolsChanged ==
    Emit(<< Notification("notifications/tools/list_changed", NoParams) >>)

NotifyPromptsChanged ==
    Emit(<< Notification("notifications/prompts/list_changed", NoParams) >>)

\* SendLogMessage returns the error of json.Marshal, and sends nothing, when
\* the data does not encode.
SendLogMessage(level, encodes) ==
    Emit(IF encodes
         THEN << Notification("notifications/message", Params(<< level >>)) >>
         ELSE <<>>)

\* The peer of the runs that watch the emitters.
InboundHandshake ==
    { << "initialize", Params(<<>>), TRUE >> }

NextNotify ==
    \/ Setup
    \/ Connect
    \/ Receive(InboundHandshake, MaxMsgs)
    \/ \E u \in 1..Len(units) : handleMessage(u)
    \/ \E u \in 1..Len(units) : handleInitializeCall(u)
    \/ \E u \in 1..Len(units) : Send(u)
    \/ NotifyResourcesChanged
    \/ NotifyResourceUpdated(UriA)
    \/ NotifyToolsChanged
    \/ NotifyPromptsChanged
    \/ \E encodes \in BOOLEAN : SendLogMessage("info", encodes)

SpecNotify == Init /\ [][NextNotify]_vars

(***************************************************************************)
(* StdioTransport.Send, call by call and write by write: callers holds the  *)
(* Send calls in progress, each with its envelope, the size of its encoding *)
(* and where the call stands: "lock", "data", "newline", "flush", "done".   *)
(* size compares the encoding with the 4096 bytes of the bufio buffer,      *)
(* which is empty when a call gets the lock: "fits" (shorter), "fills" (as  *)
(* long), "over" (longer).                                                  *)
(***************************************************************************)
\* What handlers and emitters pass to Send.
SendEnvs ==
    { Message(<< "1" >>, "", NoParams,
              << Result("list", FALSE, <<>>, TRUE) >>, NoError),
      Message(<< "\"", "<", "\"" >>, "", NoParams, NoResult,
              << ErrorMessage(CodeMethodNotFound, "Method not found") >>),
      Notification("notifications/tools/list_changed", NoParams) }

\* A Lock that does not wait for the holder.
CanLockAlways(holder) == TRUE

\* sync.Mutex.Lock returns once nobody holds the mutex.
CanLock(holder) == holder = 0

BeginSend ==
    /\ transport
    /\ Len(callers) < MaxCallers
    /\ \E env \in SendEnvs, size \in { "fits", "fills", "over" } :
           callers' = Append(callers, [env |-> env, size |-> size, pc |-> "lock"])
    /\ UNCHANGED << transport, loop, initialized, registry, units, stdout,
                    writeLock, writer, emitted,
                    feed, mu, probe >>

SendLock(c) ==
    /\ callers[c].pc = "lock"
    /\ CanLock(writeLock)
    /\ writeLock' = c
    /\ callers' = [callers EXCEPT ![c].pc = "data"]
    /\ UNCHANGED << transport, loop, initialized, registry, units, stdout,
                    writer, emitted,
                    feed, mu, probe >>

\* writer.Write(data): bufio keeps the bytes when it has room for them, and
\* writes them to the stream itself when they are more than the buffer
\* holds.
SendWriteData(c) ==
    LET data == Record(Marshal(callers[c].env)) IN
    /\ callers[c].pc = "data"
    /\ IF callers[c].size = "over"
       THEN stdout' = stdout \o writer \o << data >> /\ writer' = <<>>
       ELSE writer' = Append(writer, data) /\ stdout' = stdout
    /\ callers' = [callers EXCEPT ![c].pc = "newline"]
    /\ UNCHANGED << transport, loop, initialized, registry, units, writeLock,
                    emitted,
                    feed, mu, probe >>

\* writer.Write([]byte("\n")): bufio keeps the byte; when the record has
\* filled the buffer it writes the record to the stream first.
SendWriteNewline(c) ==
    /\ callers[c].pc = "newline"
    /\ IF callers[c].size = "fills"
       THEN stdout' = stdout \o writer /\ writer' = << NL >>
       ELSE writer' = Append(writer, NL) /\ stdout' = stdout
    /\ callers' = [callers EXCEPT ![c].pc = "flush"]
    /\ UNCHANGED << transport, loop, initialized, registry, units,
                    writeLock, emitted,
                    feed, mu, probe >>

\* writer.Flush(), then the deferred Unlock.
SendFlush(c) ==
    /\ callers[c].pc = "flush"
    /\ stdout' = stdout \o writer
    /\ writer' = <<>>
    /\ writeLock' = 0
    /\ callers' = [callers EXCEPT ![c].pc = "done"]
    /\ UNCHANGED << transport, loop, initialized, registry, units, emitted,
                    feed, mu, probe >>

NextSend ==
    \/ Setup
    \/ Connect
    \/ BeginSend
    \/ \E c \in 1..Len(callers) : SendLock(c)
    \/ \E c \in 1..Len(callers) : SendWriteData(c)
    \/ \E c \in 1..Len(callers) : SendWriteNewline(c)
    \/ \E c \in 1..Len(callers) : SendFlush(c)

SpecSend == Init /\ [][NextSend]_vars

(***************************************************************************)
(* The receive loop against the stream and the context.  ReadBytes blocks   *)
(* while the stream is open and empty, and returns its error at once, on    *)
(* every call, when the stream has ended or failed.                         *)
(***************************************************************************)
\* The errors StdioTransport.Receive can return for a stream and a context:
\* the error of ReadBytes.  It never looks at the context.
ReceiveErrors(stream, context) ==
    CASE stream = "eof" -> { "EOF" }
      [] stream = "error" -> { "read error" }
      [] OTHER -> {}

\* A loop that returns on every error of Receive.
LoopAfterAnyErrorStops(err) == "stopped"

\* handleMessages after Receive returned err: it returns on the context's
\* errors, and goes round again on any other.
LoopAfter(err) ==
    IF err \in { "context canceled", "context deadline exceeded" }
    THEN "stopped"
    ELSE "running"

\* The loop calls Receive and gets an error.
ReceiveFails ==
    /\ loop = "running"
    /\ faults < MaxFaults
    /\ \E err \in ReceiveErrors(reader, ctx) : loop' = LoopAfter(err)
    /\ faults' = faults + 1
    /\ UNCHANGED << transport, initialized, registry, units, stdout, wire,
                    emitted, reader, ctx, dropped, mu, probe >>

\* The peer closes its end of the stream.
PeerCloses ==
    /\ transport
    /\ reader = "open"
    /\ reader' = "eof"
    /\ UNCHANGED << transport, loop, initialized, registry, units, stdout,
                    wire, emitted, ctx, faults, dropped, mu, probe >>

\* A read of the stream fails, and so does every later one.
ReadFails ==
    /\ transport
    /\ reader = "open"
    /\ reader' = "error"
    /\ UNCHANGED << transport, loop, initialized, registry, units, stdout,
                    wire, emitted, ctx, faults, dropped, mu, probe >>

\* The embedding program cancels the context it gave to Connect.
Cancel ==
    /\ transport
    /\ ctx = "live"
    /\ ctx' = "cancelled"
    /\ UNCHANGED << transport, loop, initialized, registry, units, stdout,
                    wire, emitted, reader, faults, dropped, mu, probe >>

NextLoop ==
    \/ Setup
    \/ Connect
    \/ Receive(InboundHandshake, MaxMsgs)
    \/ \E u \in 1..Len(units) : handleMessage(u)
    \/ \E u \in 1..Len(units) : handleInitializeCall(u)
    \/ \E u \in 1..Len(units) : Send(u)
    \/ PeerCloses
    \/ ReadFails
    \/ Cancel
    \/ ReceiveFails

\* The Go scheduler runs every goroutine that can run: the loop's, and the
\* one of each envelope.  The peer and the embedding program owe nothing.
SpecLoop ==
    /\ Init
    /\ [][NextLoop]_vars
    /\ WF_vars(ReceiveFails)
    /\ WF_vars(\E u \in 1..Len(units) : handleMessage(u))
    /\ WF_vars(\E u \in 1..Len(units) : handleInitializeCall(u))
    /\ WF_vars(\E u \in 1..Len(units) : Send(u))

(***************************************************************************)
(* Handlers that do not return.  handleMessage runs the registered handler  *)
(* in the envelope's goroutine and defers no recover, so a panic of the     *)
(* handler (the calculator's args["a"].(float64) on a missing argument) is  *)
(* a panic of that goroutine, and the Go runtime ends the process.          *)
(***************************************************************************)
Alive == loop # "crashed"

\* The registered handler panics.
invokePanics(u) ==
    /\ units[u].pc = "invoke"
    /\ units' = [units EXCEPT ![u] =
           [@ EXCEPT !.invoked = Append(@, units[u].handler),
                     !.returned = "panic",
                     !.pc = "panic"]]
    /\ loop' = "crashed"
    /\ UNCHANGED << transport, initialized, registry, stdout, wire, emitted,
                    feed, mu, probe >>

\* The peer of the runs that watch the handlers: the handshake and one call
\* of each kind of handler, all with an id.
InboundFault ==
    { << "initialize", Params(<<>>), TRUE >>,
      << "tools/call", Params(ToolName), TRUE >>,
      << "prompts/get", Params(PromptName), TRUE >>,
      << "resources/read", Params(UriA), TRUE >>,
      << "resources/read", Params(UriB), TRUE >> }

NextFault ==
    \/ Setup
    \/ Connect
    \/ Alive /\ Receive(InboundFault, MaxDeep)
    \/ Alive /\ \E u \in 1..Len(units) : handleMessage(u)
    \/ Alive /\ \E u \in 1..Len(units) : handleRequest(u)
    \/ Alive /\ \E u \in 1..Len(units) : handleInitializeCall(u)
    \/ Alive /\ \E u \in 1..Len(units) : handleReadResourceTemplates(u)
    \/ Alive /\ \E u \in 1..Len(units) : invoke(u)
    \/ Alive /\ \E u \in 1..Len(units) : invokePanics(u)
    \/ Alive /\ \E u \in 1..Len(units) : Send(u)

SpecFault == Init /\ [][NextFault]_vars

\* The peer of the runs that watch the routing of requests the server
\* cannot serve, and of resources/read: the handshake, an unknown method,
\* unregistered names, and uris that are registered, match the template,
\* match nothing, or differ from those in the case of the scheme.
InboundRoute ==
    { << "initialize", Params(<<>>), TRUE >>,
      << "bogus/method", NoParams, TRUE >>,
      << "tools/call", Params(UnknownName), TRUE >>,
      << "prompts/get", Params(UnknownName), TRUE >> }
    \cup { << "resources/read", Params(uri), TRUE >> :
               uri \in { UriA, UriB, UriOther, UriUpper, UriUpperB } }

NextRoute ==
    \/ Setup
    \/ Connect
    \/ Receive(InboundRoute, MaxMsgs)
    \/ \E u \in 1..Len(units) : handleMessage(u)
    \/ \E u \in 1..Len(units) : handleRequest(u)
    \/ \E u \in 1..Len(units) : handleInitializeCall(u)
    \/ \E u \in 1..Len(units) : handleReadResourceTemplates(u)
    \/ \E u \in 1..Len(units) : invoke(u)
    \/ \E u \in 1..Len(units) : Send(u)

SpecRoute == Init /\ [][NextRoute]_vars

(***************************************************************************)
(* NewResourceTemplate and Match on their own: a template and a uri are     *)
(* given, the template is compiled, the uri is matched.                     *)
(***************************************************************************)
\* Templates with one placeholder after a literal, with a "." in the
\* literal, with two placeholders, with none, and with a placeholder first
\* or in the middle.
ProbeTemplates ==
    { TemplateX,
      << "u", ".", "{", "x", "}" >>,
      << "{", "x", "}", "/", "{", "y", "}" >>,
      << "u", ":", "a" >>,
      << "{", "x", "}", ":", "a" >>,
      << "u", "{", "x", "}", "a" >> }

\* Every uri of up to MaxUriLen characters.
ProbeUris ==
    UNION { [1..n -> { "u", "a", ":", "/" }] : n \in 1..MaxUriLen }

InitMatch ==
    /\ InitServer
    /\ probe \in { [NoProbe EXCEPT !.template = t, !.uri = uri, !.state = "given"] :
                       t \in ProbeTemplates, uri \in ProbeUris }

Compile ==
    /\ probe.state = "given"
    /\ probe' = [probe EXCEPT !.state = "compiled",
                              !.compiled = << NewResourceTemplate(probe.template) >>]
    /\ UNCHANGED << transport, loop, initialized, registry, units, stdout,
                    wire, emitted, feed, mu >>

MatchProbe ==
    /\ probe.state = "compiled"
    /\ LET t == probe.compiled[1]
           ok == Matches(t, probe.uri)
       IN  probe' = [probe EXCEPT !.state = "matched",
                                  !.ok = ok,
                                  !.params = IF ok THEN Match(t, probe.uri)
                                             ELSE EmptyMap]
    /\ UNCHANGED << transport, loop, initialized, registry, units, stdout,
                    wire, emitted, feed, mu >>

NextMatch ==
    \/ Compile
    \/ MatchProbe

SpecMatch == InitMatch /\ [][NextMatch]_vars

(***************************************************************************)
(* Registrations after Connect, beside the handling of requests.  An Add*   *)
(* call takes s.mu, makes its first write, then its other writes, and       *)
(* releases the lock on return; the call in progress is Calls[regs + 1].    *)
(***************************************************************************)
\* s.mu.Lock() returns once no registration and no reader holds the lock.
CanLockMu(m, us) ==
    /\ m = "free"
    /\ \A u \in 1..Len(us) : us[u].rlock = us[u].runlock

\* s.mu.Lock() and the first write of the Add* call, in a run with at most
\* this many Add* calls after Connect.
RegisterBegin(later) ==
    /\ transport
    /\ CanLockMu(mu, units)
    /\ ProgramLen <= regs
    /\ regs < ProgramLen + later
    /\ mu' = "held"
    /\ LET call == Calls[regs + 1] IN
       /\ tools' = IF call.add = "tool"
                   THEN Append(tools, [name |-> call.key, description |-> regs + 1])
                   ELSE tools
       /\ prompts' = IF call.add = "prompt"
                     THEN Append(prompts, [name |-> call.key, description |-> regs + 1])
                     ELSE prompts
       /\ resources' = IF call.add = "resource"
                       THEN Append(resources, [uri |-> call.key, name |-> regs + 1])
                       ELSE resources
       /\ resourceTemplates' =
              IF call.add = "template"
              THEN MapPut(resourceTemplates, call.key, NewResourceTemplate(call.key))
              ELSE resourceTemplates
    /\ UNCHANGED << transport, loop, initialized, resourceHandlers,
                    resourceTemplateHandlers, toolHandlers, promptHandlers,
                    regs, units, stdout, wire, emitted, feed, probe >>

\* The other writes of the Add* call and the deferred Unlock.
RegisterEnd ==
    /\ mu = "held"
    /\ mu' = "free"
    /\ regs' = regs + 1
    /\ LET call == Calls[regs + 1] IN
       /\ toolHandlers' = IF call.add = "tool"
                          THEN MapPut(toolHandlers, call.key, regs + 1)
                          ELSE toolHandlers
       /\ promptHandlers' = IF call.add = "prompt"
                            THEN MapPut(promptHandlers, call.key, regs + 1)
                            ELSE promptHandlers
       /\ resourceHandlers' = IF call.add = "resource"
                              THEN MapPut(resourceHandlers, call.key, regs + 1)
                              ELSE resourceHandlers
       /\ resourceTemplateHandlers' =
              IF call.add = "template"
              THEN MapPut(resourceTemplateHandlers, call.key, regs + 1)
              ELSE resourceTemplateHandlers
       /\ resources' = IF call.add = "template"
                       THEN Append(resources, [uri |-> call.key, name |-> regs + 1])
                       ELSE resources
    /\ UNCHANGED << transport, loop, initialized, resourceTemplates, tools,
                    prompts, units, stdout, wire, emitted, feed, probe >>

\* The peer of the runs with registrations beside the requests: the
\* handshake and listings of the list the registrations append to.
InboundRegister ==
    { << "initialize", Params(<<>>), TRUE >>,
      << "resources/list", NoParams, TRUE >>,
      << "tools/list", NoParams, TRUE >>,
      << "prompts/list", NoParams, TRUE >> }

NextRegister ==
    \/ Setup
    \/ Connect
    \/ Receive(InboundRegister, MaxMsgs)
    \/ \E u \in 1..Len(units) : handleMessage(u)
    \/ \E u \in 1..Len(units) : handleRequest(u)
    \/ \E u \in 1..Len(units) : handleInitializeCall(u)
    \/ \E u \in 1..Len(units) : Send(u)
    \/ RegisterBegin(Len(Later))
    \/ RegisterEnd

SpecRegister == Init /\ [][NextRegister]_vars

(***************************************************************************)
(* Records that do not decode.  Receive reads up to the next "\n" and gives *)
(* the bytes to json.Unmarshal; data is what ReadBytes returned: its form   *)
(* ("message" for the encoding of an envelope, "syntax" for bytes that are  *)
(* no JSON text or a JSON text with a member of the wrong type, "blank" for *)
(* an empty line) and the id a reader of the bytes can find in them.        *)
(* dropped keeps, per Receive call that returned an error after ReadBytes   *)
(* returned data, the data, the error, and whether the data was the end of  *)
(* the stream.                                                              *)
(***************************************************************************)
\* The id inside the records that do not decode.
BadId == << "9" >>

Data(form, id) == [form |-> form, id |-> id]

\* The records of the peer that json.Unmarshal refuses.
Malformed ==
    { Data("syntax", BadId), Data("blank", NoId) }

\* What the peer may leave on the stream, without a "\n", when it closes it:
\* a whole envelope, or the beginning of one.
Tails == { Data("message", BadId), Data("syntax", BadId) }

\* json.Unmarshal(data, &msg) succeeds on the encoding of an envelope.
Decodes(data) == data.form = "message"

\* What Receive returns as its error ("" for nil) when ReadBytes returned
\* data and readErr: the read's error comes first, and the data is not
\* looked at.
ReceiveReturns(data, readErr) ==
    IF readErr # "" THEN readErr
    ELSE IF ~Decodes(data) THEN "decode error"
    ELSE ""

\* The loop takes a whole record that does not decode: Receive returns the
\* error of json.Unmarshal and the loop goes round.
ReceiveMalformed ==
    /\ loop = "running"
    /\ reader = "open"
    /\ Len(dropped) < MaxBad
    /\ \E data \in Malformed :
           LET err == ReceiveReturns(data, "") IN
           /\ err # ""
           /\ dropped' = Append(dropped, [data |-> data, err |-> err,
                                          atEnd |-> FALSE])
           /\ loop' = LoopAfter(err)
    /\ UNCHANGED << transport, initialized, registry, units, stdout, wire,
                    emitted, reader, ctx, faults, mu, probe >>

\* The peer writes bytes without a "\n" and closes its end of the stream.
PeerClosesMidRecord ==
    /\ transport
    /\ reader = "open"
    /\ reader' = "tail"
    /\ UNCHANGED << transport, loop, initialized, registry, units, stdout,
                    wire, emitted, ctx, faults, dropped, mu, probe >>

\* The loop's Receive reaches the bytes at the end of the stream: ReadBytes
\* returns them together with io.EOF.
ReceiveTail ==
    /\ loop = "running"
    /\ reader = "tail"
    /\ faults < MaxFaults
    /\ Len(dropped) < MaxBad
    /\ \E data \in Tails :
           LET err == ReceiveReturns(data, "EOF") IN
           /\ dropped' = Append(dropped, [data |-> data, err |-> err,
                                          atEnd |-> TRUE])
           /\ loop' = LoopAfter(err)
    /\ reader' = "eof"
    /\ faults' = faults + 1
    /\ UNCHANGED << transport, initialized, registry, units, stdout, wire,
                    emitted, ctx, mu, probe >>

\* The peer of the runs with records that do not decode: the handshake and
\* a listing.
InboundDecode ==
    { << "initialize", Params(<<>>), TRUE >>,
      << "tools/list", NoParams, TRUE >> }

NextDecode ==
    \/ Setup
    \/ Connect
    \/ Receive(InboundDecode, MaxMsgs)
    \/ \E u \in 1..Len(units) : handleMessage(u)
    \/ \E u \in 1..Len(units) : handleRequest(u)
    \/ \E u \in 1..Len(units) : handleInitializeCall(u)
    \/ \E u \in 1..Len(units) : Send(u)
    \/ ReceiveMalformed

\* The Go scheduler runs the goroutine of every envelope.
SpecDecode ==
    /\ Init
    /\ [][NextDecode]_vars
    /\ WF_vars(\E u \in 1..Len(units) : handleMessage(u))
    /\ WF_vars(\E u \in 1..Len(units) : handleRequest(u))
    /\ WF_vars(\E u \in 1..Len(units) : handleInitializeCall(u))
    /\ WF_vars(\E u \in 1..Len(units) : Send(u))

\* The runs in which the peer closes the stream in the middle of a record.
NextTail ==
    \/ Setup
    \/ Connect
    \/ Receive(InboundDecode, MaxMsgs)
    \/ \E u \in 1..Len(units) : handleMessage(u)
    \/ \E u \in 1..Len(units) : handleRequest(u)
    \/ \E u \in 1..Len(units) : handleInitializeCall(u)
    \/ \E u \in 1..Len(units) : Send(u)
    \/ PeerClosesMidRecord
    \/ ReceiveTail
    \/ ReceiveFails

SpecTail == Init /\ [][NextTail]_vars

\* The peer of the runs with a handler that does not return for a while: the
\* handshake, a call of the tool and a listing.
InboundBlock ==
    { << "initialize", Params(<<>>), TRUE >>,
      << "tools/call", Params(ToolName), TRUE >>,
      << "tools/list", NoParams, TRUE >> }

NextBlock ==
    \/ Setup
    \/ Connect
    \/ Receive(InboundBlock, MaxDeep)
    \/ \E u \in 1..Len(units) : handleMessage(u)
    \/ \E u \in 1..Len(units) : handleRequest(u)
    \/ \E u \in 1..Len(units) : handleInitializeCall(u)
    \/ \E u \in 1..Len(units) : invoke(u)
    \/ \E u \in 1..Len(units) : Send(u)

SpecBlock == Init /\ [][NextBlock]_vars

\* The peer of the runs with registrations beside handlers that are running:
\* the handshake, a call of the tool, of the prompt, and reads that find the
\* static resource, a template, and nothing.
InboundHold ==
    { << "initialize", Params(<<>>), TRUE >>,
      << "tools/call", Params(ToolName), TRUE >>,
      << "prompts/get", Params(PromptName), TRUE >>,
      << "resources/read", Params(UriA), TRUE >>,
      << "resources/read", Params(UriB), TRUE >>,
      << "resources/read", Params(UriOther), TRUE >> }

NextHold ==
    \/ Setup
    \/ Connect
    \/ Receive(InboundHold, MaxMsgs)
    \/ \E u \in 1..Len(units) : handleMessage(u)
    \/ \E u \in 1..Len(units) : handleRequest(u)
    \/ \E u \in 1..Len(units) : handleInitializeCall(u)
    \/ \E u \in 1..Len(units) : handleReadResourceTemplates(u)
    \/ \E u \in 1..Len(units) : invoke(u)
    \/ \E u \in 1..Len(units) : Send(u)
    \/ RegisterBegin(LaterLen)
    \/ RegisterEnd

SpecHold == Init /\ [][NextHold]_vars

\* The peer of the runs that watch the choice among templates: the
\* handshake, and reads of a uri that both templates match and of one that
\* one template matches.
InboundSelect ==
    { << "initialize", Params(<<>>), TRUE >>,
      << "resources/read", Params(UriC), TRUE >>,
      << "resources/read", Params(UriB), TRUE >> }

NextSelect ==
    \/ Setup
    \/ Connect
    \/ Receive(InboundSelect, MaxDeep)
    \/ \E u \in 1..Len(units) : handleMessage(u)
    \/ \E u \in 1..Len(units) : handleRequest(u)
    \/ \E u \in 1..Len(units) : handleInitializeCall(u)
    \/ \E u \in 1..Len(units) : handleReadResourceTemplates(u)
    \/ \E u \in 1..Len(units) : invoke(u)
    \/ \E u \in 1..Len(units) : Send(u)

SpecSelect == Init /\ [][NextSelect]_vars

\* The same session with a peer that sends fewer kinds of envelope, and more
\* of them.
InboundDeep ==
    { << "initialize", Params(<<>>), TRUE >>,
      << "initialized", NoParams, FALSE >>,
      << "tools/call", Params(ToolName), TRUE >>,
      << "resources/read", Params(UriB), TRUE >>,
      << "prompts/get", Params(PromptName), TRUE >>,
      << "bogus/method", NoParams, TRUE >> }

NextDeep ==
    \/ Setup
    \/ Connect
    \/ Receive(InboundDeep, MaxDeep)
    \/ \E u \in 1..Len(units) : handleMessage(u)
    \/ \E u \in 1..Len(units) : handleRequest(u)
    \/ \E u \in 1..Len(units) : handleInitializeCall(u)
    \/ \E u \in 1..Len(units) : handleReadResourceTemplates(u)
    \/ \E u \in 1..Len(units) : invoke(u)
    \/ \E u \in 1..Len(units) : Send(u)

SpecDeep == Init /\ [][NextDeep]_vars

(***************************************************************************)
(* Properties.                                                              *)
(***************************************************************************)
Units == 1..Len(units)

IsErrorEnv(env, code) ==
    /\ env.result = NoResult
    /\ env.error # NoError
    /\ env.error[1].code = code

IsResultEnv(env) == env.result # NoResult /\ env.error = NoError

\* Every envelope the unit handed or is about to hand to Send.
Answers(unit) == unit.out \o unit.resp

\* A request: an envelope with an id and a method.
IsRequest(msg) == msg.id # NoId /\ msg.method # ""

\* C1: a request other than initialize that handleMessage processes while
\* the flag it loads is false is answered by the error -32002 and by nothing
\* else, whatever its method, and no registered handler is called for it.
C1_GateRejectsWhileUninitialized ==
    \A u \in Units :
        LET unit == units[u] IN
        (unit.sawInit = "no" /\ IsRequest(unit.msg)
            /\ unit.msg.method # "initialize")
        => /\ unit.invoked = <<>>
           /\ unit.pc \in { "send", "done" }
           /\ Len(Answers(unit)) = 1
           /\ IsErrorEnv(Answers(unit)[1], CodeNotInitialized)

\* An unknown method and a tools/call for a registered tool, both rejected
\* with -32002 while uninitialized, their answers written.
C1_Witness ==
    /\ Len(units) = 2
    /\ ~initialized
    /\ units[1].msg.method = "bogus/method"
    /\ units[2].msg.method = "tools/call"
    /\ units[2].msg.params = Params(ToolName)
    /\ \A u \in Units :
           /\ units[u].sawInit = "no"
           /\ units[u].pc = "done"
           /\ Len(units[u].out) = 1
           /\ IsErrorEnv(units[u].out[1], CodeNotInitialized)

\* C2 as stated: a request other than initialize/initialized that arrives
\* before any initialize request has arrived is answered with -32002,
\* however the units are scheduled.
C2_RejectedByArrivalOrder ==
    \A u \in Units :
        LET unit == units[u] IN
        (/\ IsRequest(unit.msg)
         /\ unit.msg.method \notin { "initialize", "initialized" }
         /\ \A v \in 1..(u - 1) : units[v].msg.method # "initialize")
        => \A i \in 1..Len(Answers(unit)) :
               IsErrorEnv(Answers(unit)[i], CodeNotInitialized)

\* C3: the flag starts false and never goes from true back to false.
C3_InitializedMonotonic ==
    /\ ~initialized
    /\ [][initialized => initialized']_vars

\* The flag is true and a later initialize whose params do not decode has
\* been handled and answered.
C3_Witness ==
    /\ initialized
    /\ \E u \in Units :
           /\ units[u].msg.method = "initialize"
           /\ ~units[u].msg.params.valid
           /\ units[u].sawInit = "yes"
           /\ units[u].pc = "done"
           /\ Len(units[u].out) = 1

\* C4 as stated: at most one initialize request of a session is answered
\* with a result.
C4_OneInitializeResult ==
    Cardinality({ u \in Units :
                    /\ units[u].msg.method = "initialize"
                    /\ \E i \in 1..Len(Answers(units[u])) :
                           IsResultEnv(Answers(units[u])[i]) }) <= 1

C6_EveryRequestAnswered ==
    \A u \in Units :
        (IsRequest(units[u].msg) /\ units[u].pc = "done")
        => units[u].out # <<>>

\* C7: an envelope the server sends in answer carries exactly one of result
\* and error, and a received envelope gets at most one answer.
C7_OneAnswerOneMember ==
    \A u \in Units :
        LET unit == units[u] IN
        /\ Len(Answers(unit)) <= 1
        /\ \A i \in 1..Len(Answers(unit)) :
               (Answers(unit)[i].result # NoResult)
                   # (Answers(unit)[i].error # NoError)
               /\ Len(Answers(unit)[i].result) <= 1
               /\ Len(Answers(unit)[i].error) <= 1

\* A resources/read that a static resource answered (a template matches the
\* uri too) has returned with its one answer written.
C7_Witness ==
    \E u \in Units :
        /\ units[u].msg.method = "resources/read"
        /\ units[u].hkind = "resource"
        /\ Matches(resourceTemplates[TemplateX], units[u].uri)
        /\ units[u].pc = "done"
        /\ Len(units[u].invoked) = 1
        /\ Len(units[u].out) = 1

\* C8: nothing is sent for an inbound envelope without an id, whatever its
\* method and whatever the flag.
C8_NoReplyWithoutId ==
    \A u \in Units :
        units[u].msg.id = NoId => Answers(units[u]) = <<>>

\* An initialized notification handled before the handshake and an
\* initialize without id handled after it, nothing written.
C8_Witness ==
    /\ Len(units) = 2
    /\ units[1].msg.method = "initialized"
    /\ units[1].sawInit = "no"
    /\ units[2].msg.method = "initialize"
    /\ \A u \in Units : units[u].msg.id = NoId /\ units[u].pc = "done"
    /\ initialized
    /\ stdout = <<>>

\* The records of the stream that carry a method: the notifications the
\* server wrote.
WrittenNotifications ==
    { i \in 1..Len(stdout) :
        ~stdout[i].newline /\ stdout[i].data[1].method # "" }

\* C9: every envelope an emitter hands to the transport has a notification
\* method, no id, no result and no error; and each emitter call that built
\* one had written it when it returned, before and after the handshake,
\* whatever the inbound side was doing.
C9_NotificationsHaveMethodNoId ==
    /\ \A i \in 1..Len(emitted) :
           /\ Len(emitted[i].sent) <= 1
           /\ \A k \in 1..Len(emitted[i].sent) :
                  LET env == emitted[i].sent[k] IN
                  /\ env.method \in NotificationMethods
                  /\ env.id = NoId
                  /\ env.result = NoResult
                  /\ env.error = NoError
    /\ \A i \in WrittenNotifications : stdout[i].data[1].id = NoId
    /\ Cardinality(WrittenNotifications) =
           Cardinality({ i \in 1..Len(emitted) : emitted[i].sent # <<>> })

\* One notification written before the handshake and one after it, the
\* second while a request of the peer is still unanswered.
C9_Witness ==
    /\ Len(emitted) = 2
    /\ emitted[1].sent # <<>> /\ ~emitted[1].during
    /\ emitted[2].sent # <<>> /\ emitted[2].during
    /\ emitted[2].sent[1].method = "notifications/resources/updated"
    /\ stdout[Len(stdout) - 1] = Record(Marshal(emitted[2].sent[1]))
    /\ \E u \in Units :
           /\ IsRequest(units[u].msg)
           /\ units[u].pc # "done"
           /\ units[u].out = <<>>

\* What the transport has taken: the stream and what bufio still holds.
Stream == stdout \o writer

\* C10: whatever the interleaving of Send calls, what the transport has
\* taken is whole records, each followed by exactly one newline; the only
\* record without its newline yet is the last one, written by the call that
\* holds the lock; and once no call holds the lock everything is flushed, one
\* record per returned call.
C10_SendWritesWholeRecords ==
    /\ \A i \in 1..Len(Stream) : Stream[i].newline = (i % 2 = 0)
    /\ \A i \in 1..Len(Stream) :
           ~Stream[i].newline =>
               \E c \in 1..Len(callers) :
                   Stream[i] = Record(Marshal(callers[c].env))
    /\ Len(Stream) % 2 = 1 =>
           \E c \in 1..Len(callers) :
               /\ writeLock = c
               /\ callers[c].pc = "newline"
               /\ Stream[Len(Stream)] = Record(Marshal(callers[c].env))
    /\ writeLock = 0 =>
           /\ writer = <<>>
           /\ Len(stdout) =
                  2 * Cardinality({ c \in 1..Len(callers) :
                                      callers[c].pc = "done" })

\* Two calls in progress with different envelopes: the second holds the lock
\* and its record, too long for the buffer, is on the stream without its
\* newline, while the first waits for the lock.
C10_Witness ==
    /\ Len(callers) = 2
    /\ callers[1].env # callers[2].env
    /\ callers[1].pc = "lock"
    /\ callers[2].pc = "newline"
    /\ callers[2].size = "over"
    /\ writeLock = 2
    /\ stdout = << Record(Marshal(callers[2].env)) >>

\* C11: once a Receive call of the loop has reported the end of the stream
\* or a failed read, the loop has stopped: it calls Receive no more.
C11_LoopStopsOnStreamFault ==
    faults > 0 => loop = "stopped"

\* C12: with the stdio transport attached, the stream staying open and the
\* peer always free to send more, once the context is cancelled the receive
\* loop eventually exits, also when no more input arrives.
C12_CancelStopsLoop ==
    [](reader = "open" /\ Len(units) < MaxMsgs) =>
        ((ctx = "cancelled" /\ transport) ~> (loop = "stopped"))

\* An answer that tells the peer of a failure: an error envelope, or a
\* result flagged isError.
IsFailureEnv(env) ==
    \/ env.error # NoError /\ env.result = NoResult
    \/ IsResultEnv(env) /\ env.result[1].isError

\* C13: however a registered handler fails for a request, by returning an
\* error or by panicking, the process lives on, its loop keeps running and
\* the request has one answer that tells of the failure.
C13_HandlerFaultContained ==
    \A u \in Units :
        units[u].returned \in { "err", "panic" } =>
            /\ loop = "running"
            /\ Len(Answers(units[u])) = 1
            /\ IsFailureEnv(Answers(units[u])[1])

\* C14: a tools/call whose tool was found is answered with a result, never
\* an error envelope: isError true and the one text block "Error: <message>"
\* when the handler returned an error, isError false and the handler's
\* content when it succeeded.
C14_ToolErrorIsFlaggedResult ==
    \A u \in Units :
        (units[u].hkind = "tool" /\ units[u].returned \in { "ok", "err" }) =>
            /\ Len(Answers(units[u])) = 1
            /\ LET env == Answers(units[u])[1] IN
               /\ IsResultEnv(env)
               /\ env.result[1].kind = "tool"
               /\ env.result[1].isError = (units[u].returned = "err")
               /\ env.result[1].body =
                      IF units[u].returned = "err"
                      THEN << [type |-> "text", text |-> "Error: failed"] >>
                      ELSE << [type |-> "text", text |-> "ok"] >>

\* Two tools/call written out, one whose handler failed and one whose
\* handler succeeded.
C14_Witness ==
    \E u, v \in Units :
        /\ units[u].hkind = "tool" /\ units[u].returned = "err"
        /\ units[v].hkind = "tool" /\ units[v].returned = "ok"
        /\ units[u].pc = "done" /\ Len(units[u].out) = 1
        /\ units[v].pc = "done" /\ Len(units[v].out) = 1
        /\ units[u].out[1].result[1].isError
        /\ ~units[v].out[1].result[1].isError

\* C15: a prompts/get whose prompt was found and whose handler returned an
\* error is answered with one error envelope, code -32603 and the handler's
\* message, and never with a result.
C15_PromptErrorIsErrorEnvelope ==
    \A u \in Units :
        (units[u].hkind = "prompt" /\ units[u].returned = "err") =>
            /\ Len(Answers(units[u])) = 1
            /\ LET env == Answers(units[u])[1] IN
               /\ IsErrorEnv(env, CodeInternalError)
               /\ env.error[1].message = "failed"
               /\ env.result = NoResult

\* A prompts/get whose handler failed, answered on the stream.
C15_Witness ==
    \E u \in Units :
        /\ units[u].msg.method = "prompts/get"
        /\ units[u].hkind = "prompt"
        /\ units[u].returned = "err"
        /\ units[u].pc = "done"
        /\ Len(units[u].out) = 1
        /\ units[u].out[1].error[1].code = CodeInternalError

\* The request of the unit was refused with this code and nothing else
\* happened: no handler ran and the loop goes on.
RefusedWith(unit, code) ==
    /\ unit.invoked = <<>>
    /\ unit.pc \in { "send", "done" }
    /\ Len(Answers(unit)) = 1
    /\ IsErrorEnv(Answers(unit)[1], code)
    /\ loop = "running"

\* Some registered template matches the uri.
SomeTemplateMatches(uri) ==
    \E t \in DOMAIN resourceTemplates : Matches(resourceTemplates[t], uri)

\* C16: a request handled in the Initialized state, once its handler has
\* made its lookups, is refused with -32601
\* when its method is unknown, and with -32602 when it is a tools/call or a
\* prompts/get for an unregistered name or a resources/read for a uri that
\* is no registered static resource and that no registered template matches;
\* no handler is invoked and the loop goes on.
C16_ProtocolFaultCodes ==
    \A u \in Units :
        LET unit == units[u]
            m == unit.msg
        IN  (unit.sawInit = "yes" /\ IsRequest(m)
                 /\ unit.pc \in { "invoke", "send", "done" }) =>
                /\ m.method \notin KnownMethods =>
                       RefusedWith(unit, CodeMethodNotFound)
                /\ (m.method = "tools/call" /\ m.params.valid
                        /\ m.params.key \notin DOMAIN toolHandlers) =>
                       RefusedWith(unit, CodeInvalidParams)
                /\ (m.method = "prompts/get" /\ m.params.valid
                        /\ m.params.key \notin DOMAIN promptHandlers) =>
                       RefusedWith(unit, CodeInvalidParams)
                /\ (m.method = "resources/read" /\ m.params.valid
                        /\ m.params.key \notin DOMAIN resourceHandlers
                        /\ ~SomeTemplateMatches(m.params.key)) =>
                       RefusedWith(unit, CodeInvalidParams)

\* C17: a resources/read of uri u handled in the Initialized state, once
\* its lookups are made, goes to
\* the handler of the static resource registered under exactly u when there
\* is one, and then to no template handler; it goes to a template handler
\* only when no static resource is registered under u; and it is refused
\* with -32602 when u is no static resource and no template matches it.
C17_StaticBeforeTemplate ==
    \A u \in Units :
        LET unit == units[u]
            uri == unit.msg.params.key
        IN  (unit.msg.method = "resources/read" /\ unit.msg.params.valid
                 /\ unit.sawInit = "yes"
                 /\ unit.pc \in { "invoke", "send", "done" }) =>
                /\ uri \in DOMAIN resourceHandlers =>
                       /\ unit.hkind = "resource"
                       /\ unit.handler = resourceHandlers[uri]
                /\ unit.hkind = "template" =>
                       uri \notin DOMAIN resourceHandlers
                /\ (uri \notin DOMAIN resourceHandlers
                        /\ ~SomeTemplateMatches(uri)) =>
                       RefusedWith(unit, CodeInvalidParams)

\* The ways a uri, from its j-th character on, is the template from its
\* i-th character on with every {name} replaced by a non-empty segment
\* without "/" and every other character kept: the set of the sequences of
\* segments, in the order of the placeholders.
RECURSIVE Instances(_, _, _, _)
Instances(t, i, uri, j) ==
    IF i > Len(t) THEN (IF j > Len(uri) THEN { <<>> } ELSE {})
    ELSE LET e == RunEnd(t, i + 1) IN
         IF t[i] = "{" /\ e >= i + 1 /\ e + 1 <= Len(t) /\ t[e + 1] = "}"
         THEN UNION { { << SubSeq(uri, j, k) >> \o r :
                            r \in Instances(t, e + 2, uri, k + 1) } :
                      k \in j..SegmentEnd(uri, j) }
         ELSE IF j <= Len(uri) /\ uri[j] = t[i]
              THEN Instances(t, i + 1, uri, j + 1)
              ELSE {}

\* C18: Match of a compiled template succeeds exactly when the whole uri is
\* the template with each placeholder replaced by one non-empty segment
\* without "/" and the literal parts kept as they are, and then returns the
\* map from each placeholder's name to its segment.
C18_MatchIsTemplateInstance ==
    probe.state = "matched" =>
        LET ways == Instances(probe.template, 1, probe.uri, 1)
            names == probe.compiled[1].paramNames
        IN  /\ probe.ok <=> ways # {}
            /\ probe.ok =>
                   \E caps \in ways :
                       /\ DOMAIN probe.params = { names[i] : i \in 1..Len(names) }
                       /\ \A i \in 1..Len(names) :
                              probe.params[names[i]] = caps[i]

\* The ordinal of the registration that appended an entry to the list a
\* listing method copies.
Ordinal(method, entry) ==
    IF method = "resources/list" THEN entry.name ELSE entry.description

\* C19: the result of a listing is the list as it stood at one instant
\* between the receipt of the request and its answer: a prefix of the list
\* as it is now, made only of entries of registrations that have completed,
\* and with every entry of a registration that had completed when the
\* request was received.
C19_ListingIsSnapshot ==
    \A u \in Units :
        LET unit == units[u]
            method == unit.msg.method
        IN  (method \in ListMethods /\ Answers(unit) # <<>>
                 /\ IsResultEnv(Answers(unit)[1])) =>
                LET body == Answers(unit)[1].result[1].body
                    \* The list the method copies, as it is now.
                    list == CASE method = "resources/list" -> resources
                              [] method = "tools/list" -> tools
                              [] method = "prompts/list" -> prompts
                IN  /\ Len(body) <= Len(list)
                    /\ body = SubSeq(list, 1, Len(body))
                    /\ \A i \in 1..Len(body) : Ordinal(method, body[i]) <= regs
                    /\ \A i \in 1..Len(list) :
                           Ordinal(method, list[i]) <= unit.arrived =>
                               i <= Len(body)

\* A tools/list received before the tool was registered once more, answered
\* after that registration and the prompt's after it completed: it was taken
\* between the two, and shows the tool's new entry and all before it.
C19_Witness ==
    \E u \in Units :
        /\ units[u].msg.method = "tools/list"
        /\ units[u].arrived < ProgramLen + 3
        /\ Calls[ProgramLen + 3].add = "tool"
        /\ regs = ProgramLen + 4
        /\ mu = "free"
        /\ Len(units[u].out) = 1
        /\ IsResultEnv(units[u].out[1])
        /\ units[u].out[1].result[1].body = tools
        /\ tools[Len(tools)].description = ProgramLen + 3

\* The ordinal of the last of the first n registrations of a run that
\* registered this key as this kind of capability (0 if none did).
Latest(kind, key, n) ==
    LET made == { i \in 1..n : Calls[i].add = kind /\ Calls[i].key = key }
    IN  IF made = {} THEN 0 ELSE CHOOSE i \in made : \A j \in made : j <= i

\* C20: registering a key again raises no error and replaces its handler: a
\* request that finds a handler finds the one of the latest registration of
\* its key, never an earlier one.
C20_LastRegistrationWins ==
    [][\A u \in Units :
           (units[u].pc # "invoke" /\ units'[u].pc = "invoke") =>
               LET unit == units'[u] IN
               CASE unit.hkind = "tool" ->
                        unit.handler = Latest("tool", unit.msg.params.key, regs)
                 [] unit.hkind = "prompt" ->
                        unit.handler = Latest("prompt", unit.msg.params.key, regs)
                 [] unit.hkind = "resource" ->
                        unit.handler = Latest("resource", unit.uri, regs)
                 [] unit.hkind = "template" ->
                        \E t \in DOMAIN resourceTemplates :
                            /\ Matches(resourceTemplates[t], unit.uri)
                            /\ unit.handler = Latest("template", t, regs)]_vars

\* The template and the static resource were each registered twice, and a
\* read that the template matches and a read of the resource have each
\* invoked the handler of the second registration.
C20_Witness ==
    /\ Cardinality({ i \in 1..regs : Calls[i] = [add |-> "template", key |-> TemplateX] }) = 2
    /\ Cardinality({ i \in 1..regs : Calls[i] = [add |-> "resource", key |-> UriA] }) = 2
    /\ \E u \in Units :
           /\ units[u].hkind = "template"
           /\ units[u].uri = UriB
           /\ units[u].invoked = << Latest("template", TemplateX, regs) >>
           /\ units[u].pc = "done"
    /\ \E u \in Units :
           /\ units[u].hkind = "resource"
           /\ units[u].invoked = << Latest("resource", UriA, regs) >>
           /\ units[u].pc = "done"

\* C21 as stated: the result of a listing holds at most one entry per key,
\* also after a key has been registered again.
C21_ListedKeysUnique ==
    \A u \in Units :
        LET unit == units[u]
            method == unit.msg.method
            \* The key of an entry: the uri or pattern of a resource, the
            \* name of a tool or a prompt.
            KeyOf(entry) ==
                IF method = "resources/list" THEN entry.uri ELSE entry.name
        IN  (method \in ListMethods /\ Answers(unit) # <<>>
                 /\ IsResultEnv(Answers(unit)[1])) =>
                LET body == Answers(unit)[1].result[1].body IN
                \A i, j \in 1..Len(body) :
                    KeyOf(body[i]) = KeyOf(body[j]) => i = j

\* C22 as stated: a record that does not decode and in which an id can be
\* found is answered, in the end, with the error -32700 under that id.
C22_DecodeFaultAnswered ==
    LET \* A record of the stream that answers this id with a parse error.
        ParseErrorFor(token, id) ==
            /\ ~token.newline
            /\ IsErrorEnv(token.data[1], CodeParseError)
            /\ IdValue(token.data[1].id) = IdValue(id)
    IN
    \A i \in 1..MaxBad :
        (IF Len(dropped) >= i
         THEN dropped[i].err = "decode error" /\ dropped[i].data.id # NoId
         ELSE FALSE)
        ~> (IF Len(dropped) >= i
            THEN \E k \in 1..Len(stdout) :
                     ParseErrorFor(stdout[k], dropped[i].data.id)
            ELSE FALSE)

\* C23: a record that does not decode ends nothing: the step that drops it
\* leaves the flag, the registries and the envelopes in hand as they were and
\* the loop running on the open stream, and every request received after it
\* is answered.
C23_DecodeFaultNotFatal ==
    /\ [][\A i \in 1..Len(dropped') :
              (i > Len(dropped) /\ dropped'[i].err = "decode error") =>
                  /\ loop' = "running"
                  /\ reader' = "open"
                  /\ initialized' = initialized
                  /\ registry' = registry
                  /\ units' = units
                  /\ stdout' = stdout]_vars
    /\ \A u \in 1..MaxMsgs :
           (IF Len(units) >= u
            THEN units[u].after > 0 /\ IsRequest(units[u].msg)
            ELSE FALSE)
           ~> (IF Len(units) >= u THEN Len(units[u].out) = 1 ELSE FALSE)

\* A record with an id did not decode while the handshake was answered, and
\* a listing received after it has its result on the stream.
C23_Witness ==
    /\ Len(dropped) = 1
    /\ dropped[1].err = "decode error"
    /\ dropped[1].data.id # NoId
    /\ Len(units) = 2
    /\ units[1].msg.method = "initialize" /\ units[1].after = 0
    /\ units[2].msg.method = "tools/list" /\ units[2].after = 1
    /\ initialized
    /\ units[2].pc = "done"
    /\ Len(units[2].out) = 1
    /\ IsResultEnv(units[2].out[1])
    /\ units[2].out[1].result[1].body = tools

\* C24 as stated: the Receive call that reaches bytes left at the end of the
\* stream without a "\n" reports a decode error for them.
C24_TailIsDecodeError ==
    \A i \in 1..Len(dropped) :
        dropped[i].atEnd => dropped[i].err = "decode error"

\* C25: while the handler of a request is running, the loop can still take
\* the next envelope, and every other envelope in hand can still be
\* dispatched and have its answer written.
C25_NoHeadOfLineBlocking ==
    (\E u \in Units : units[u].pc = "invoke") =>
        /\ (loop = "running" /\ reader = "open" /\ Len(units) < MaxDeep) =>
               ENABLED Receive(InboundBlock, MaxDeep)
        /\ \A v \in Units :
               /\ (units[v].pc = "start" /\ mu = "free") => ENABLED handleMessage(v)
               /\ (units[v].pc \in RequestMethods /\ mu = "free") =>
                      ENABLED handleRequest(v)
               /\ (units[v].pc = "send" /\ writeLock = 0) => ENABLED Send(v)

\* The handler of a tools/call is still running, and a listing received after
\* that call has its result on the stream.
C25_Witness ==
    /\ Len(units) = 3
    /\ units[2].msg.method = "tools/call"
    /\ units[2].pc = "invoke"
    /\ units[2].invoked = <<>>
    /\ units[2].out = <<>>
    /\ units[3].msg.method = "tools/list"
    /\ units[3].pc = "done"
    /\ Len(units[3].out) = 1
    /\ IsResultEnv(units[3].out[1])
    /\ stdout[Len(stdout) - 1] = Record(units[3].out[1])

\* An envelope that carries the result of an initialize.
IsGreeting(env) ==
    IsResultEnv(env) /\ env.result[1].kind = "initialize"

\* The result of an initialize is on the stream, where the peer can read it.
Greeted ==
    \E k \in 1..Len(stdout) : ~stdout[k].newline /\ IsGreeting(stdout[k].data[1])

\* C26: the flag is true from the moment the result of an initialize is
\* handed to Send, so an envelope dispatched once that result is on the
\* stream, as is every envelope the peer sends after reading it, finds the
\* flag true and is not refused with -32002.
C26_FlagSetBeforeGreeting ==
    /\ [](\A u \in Units :
              (\E i \in 1..Len(Answers(units[u])) : IsGreeting(Answers(units[u])[i]))
              => initialized)
    /\ [][\A u \in Units :
              (Greeted /\ units[u].pc = "start" /\ units'[u].pc # "start") =>
                  /\ units'[u].sawInit # "no"
                  /\ \A i \in 1..Len(Answers(units'[u])) :
                         ~IsErrorEnv(Answers(units'[u])[i], CodeNotInitialized)]_vars

\* The result of the initialize is on the stream first, and the tools/call
\* behind it was served: its handler ran and its result is written.
C26_Witness ==
    /\ Len(units) = 2
    /\ units[1].msg.method = "initialize"
    /\ units[2].msg.method = "tools/call"
    /\ Len(stdout) = 4
    /\ IsGreeting(stdout[1].data[1])
    /\ units[2].pc = "done"
    /\ units[2].sawInit = "yes"
    /\ Len(units[2].invoked) = 1
    /\ stdout[3] = Record(units[2].out[1])
    /\ IsResultEnv(units[2].out[1])

\* An initialize whose params did not decode has been handled: its
\* handleInitialize has run.
FailedInitialize(unit) ==
    /\ unit.msg.method = "initialize"
    /\ ~unit.msg.params.valid
    /\ unit.pc \notin { "start", "initialize" }

\* C27: an initialize whose params are absent or do not decode is answered
\* with the error -32700 and nothing else, its handling leaves the flag as it
\* was, and while the flag is still false after it every other request is
\* refused with -32002.
C27_FailedInitializeKeepsGate ==
    /\ [](\A u \in Units :
              FailedInitialize(units[u]) =>
                  /\ units[u].invoked = <<>>
                  /\ units[u].msg.id = NoId => Answers(units[u]) = <<>>
                  /\ units[u].msg.id # NoId =>
                         /\ Len(Answers(units[u])) = 1
                         /\ IsErrorEnv(Answers(units[u])[1], CodeParseError))
    /\ [][\A u \in Units :
              (units[u].pc = "initialize" /\ FailedInitialize(units'[u])) =>
                  initialized' = initialized]_vars
    /\ [][\A u \in Units :
              (/\ units[u].pc = "start" /\ units'[u].pc # "start"
               /\ ~initialized
               /\ \E v \in Units : FailedInitialize(units[v])
               /\ IsRequest(units[u].msg)
               /\ units[u].msg.method # "initialize") =>
                  /\ Len(Answers(units'[u])) = 1
                  /\ IsErrorEnv(Answers(units'[u])[1], CodeNotInitialized)
                  /\ ~initialized']_vars

\* An initialize without params was answered with -32700, the flag is still
\* false, and the tools/call handled after it was refused with -32002.
C27_Witness ==
    /\ Len(units) = 2
    /\ FailedInitialize(units[1])
    /\ units[1].pc = "done"
    /\ Len(units[1].out) = 1
    /\ IsErrorEnv(units[1].out[1], CodeParseError)
    /\ ~initialized
    /\ units[2].msg.method = "tools/call"
    /\ units[2].msg.params = Params(ToolName)
    /\ units[2].pc = "done"
    /\ units[2].invoked = <<>>
    /\ Len(stdout) = 4
    /\ stdout[3] = Record(units[2].out[1])
    /\ IsErrorEnv(units[2].out[1], CodeNotInitialized)

\* C28: an initialize with params that decode and without an id, once
\* handled, has set the flag and has been answered with nothing.
C28_InitializeWithoutId ==
    \A u \in Units :
        LET unit == units[u] IN
        (/\ unit.msg.method = "initialize"
         /\ unit.msg.params.valid
         /\ unit.msg.id = NoId
         /\ unit.pc \notin { "start", "initialize" })
        => /\ initialized
           /\ unit.pc = "done"
           /\ Answers(unit) = <<>>

\* An initialize without an id was handled, nothing was written for it, and
\* the tools/call behind it was served: the one record of the stream is its
\* result.
C28_Witness ==
    /\ Len(units) = 2
    /\ units[1].msg.method = "initialize"
    /\ units[1].msg.params.valid
    /\ units[1].msg.id = NoId
    /\ units[1].pc = "done"
    /\ initialized
    /\ units[2].msg.method = "tools/call"
    /\ units[2].sawInit = "yes"
    /\ Len(units[2].invoked) = 1
    /\ units[2].pc = "done"
    /\ Len(units[2].out) = 1
    /\ IsResultEnv(units[2].out[1])
    /\ stdout = << Record(units[2].out[1]), NL >>

\* C29: an envelope whose method is empty, with an id or without, is
\* dropped by handleMessage before the flag is read: nothing is sent for it,
\* no handler runs, and its handling changes neither the flag nor the
\* registries nor the stream.
C29_EmptyMethodIgnored ==
    /\ [](\A u \in Units :
              (units[u].msg.method = "" /\ units[u].pc # "start") =>
                  /\ units[u].pc = "done"
                  /\ units[u].sawInit = "unread"
                  /\ units[u].invoked = <<>>
                  /\ Answers(units[u]) = <<>>)
    /\ [][\A u \in Units :
              (/\ units[u].msg.method = ""
               /\ units[u].pc = "start"
               /\ units'[u].pc # "start") =>
                  /\ initialized' = initialized
                  /\ registry' = registry
                  /\ stdout' = stdout]_vars

\* Before any initialize, an envelope with an id and no method and one with
\* neither have been handled, and nothing is written.
C29_Witness ==
    /\ Len(units) = 2
    /\ units[1].msg.method = "" /\ units[1].msg.id # NoId
    /\ units[2].msg.method = "" /\ units[2].msg.id = NoId
    /\ units[1].pc = "done"
    /\ units[2].pc = "done"
    /\ ~initialized
    /\ stdout = <<>>

\* Every list names exactly the keys of its handler maps.
RegistriesAgree ==
    LET \* The keys of the entries of a list.
        Names(list) == { list[i].name : i \in 1..Len(list) }
        Uris(list) == { list[i].uri : i \in 1..Len(list) }
    IN
    /\ Names(tools) = DOMAIN toolHandlers
    /\ Names(prompts) = DOMAIN promptHandlers
    /\ Uris(resources) = (DOMAIN resourceHandlers) \cup (DOMAIN resourceTemplates)
    /\ DOMAIN resourceTemplates = DOMAIN resourceTemplateHandlers

\* C30: whenever no registration holds s.mu, which is whenever a holder of
\* the lock can look, the tools list names exactly the keys of toolHandlers,
\* the prompts list those of promptHandlers, the resources list those of
\* resourceHandlers and resourceTemplates together, and resourceTemplates
\* and resourceTemplateHandlers have the same keys.
C30_RegistriesAgree ==
    mu = "free" => RegistriesAgree

\* The registration of a new static resource after Connect has completed,
\* after a state in which it held the lock with the list ahead of the map,
\* and a listing taken since shows the new entry.
C30_Witness ==
    /\ mu = "free"
    /\ regs = ProgramLen + 1
    /\ Calls[regs].key \in DOMAIN resourceHandlers
    /\ resourceHandlers[Calls[regs].key] = regs
    /\ Calls[regs].key \notin { Calls[i].key : i \in 1..ProgramLen }
    /\ \E u \in Units :
           /\ units[u].msg.method = "resources/list"
           /\ Len(units[u].out) = 1
           /\ IsResultEnv(units[u].out[1])
           /\ units[u].out[1].result[1].body = resources

\* C31: a unit holds no read lock of s.mu once its handler has looked up
\* what it needs: every RLock it made is matched by one RUnlock before a
\* registered handler is called and before an answer is sent, on the static
\* path (one lock), the template path and the path that finds nothing (two
\* locks each), and for tools and prompts (one lock); so while a handler is
\* running a registration can take the lock.
C31_NoLockAcrossHandler ==
    /\ \A u \in Units :
           LET unit  == units[u]
               \* The read locks the unit holds.
               HeldBy == unit.rlock - unit.runlock
           IN
           /\ HeldBy = 0
           /\ unit.pc = "invoke" =>
                  unit.rlock = IF unit.hkind = "template" THEN 2 ELSE 1
           /\ (unit.msg.method = "resources/read" /\ unit.pc \in { "send", "done" }
                   /\ unit.invoked = <<>> /\ unit.sawInit = "yes") =>
                  unit.rlock = 2
    /\ (/\ \E u \in Units : units[u].pc = "invoke"
        /\ transport
        /\ mu = "free"
        /\ ProgramLen <= regs
        /\ regs < ProgramLen + LaterLen) => ENABLED RegisterBegin(LaterLen)

\* A registration took the lock and made its first write while the handler
\* of a template, found under the second read lock of its unit, was running.
C31_Witness ==
    /\ mu = "held"
    /\ regs = ProgramLen
    /\ \E u \in Units :
           /\ units[u].pc = "invoke"
           /\ units[u].hkind = "template"
           /\ units[u].invoked = <<>>
           /\ units[u].rlock = 2
           /\ units[u].runlock = 2

\* The registered templates that match the uri.
MatchingTemplates(uri) ==
    { t \in DOMAIN resourceTemplates : Matches(resourceTemplates[t], uri) }

\* C32: a resources/read that went to the template loop has chosen one
\* registered template that matches its uri: the handler it calls is the one
\* registered under that template and the parameters it passes are the ones
\* that same template extracts from the uri; it calls that handler once and
\* no other, also when several templates match.
C32_TemplateSelectionSound ==
    \A u \in Units :
        LET unit == units[u] IN
        unit.hkind = "template" =>
            /\ \E t \in MatchingTemplates(unit.uri) :
                   /\ unit.handler = resourceTemplateHandlers[t]
                   /\ unit.hparams = Match(resourceTemplates[t], unit.uri)
            /\ unit.invoked \in { <<>>, << unit.handler >> }
            /\ unit.pc \in { "send", "done" } => unit.invoked = << unit.handler >>

\* Two reads of a uri that both templates match were served, one by each
\* template's handler, each with the parameters of its own template.
C32_Witness ==
    /\ Cardinality(MatchingTemplates(UriC)) = 2
    /\ \E u, v \in Units :
           /\ units[u].uri = UriC /\ units[v].uri = UriC
           /\ units[u].pc = "done" /\ units[v].pc = "done"
           /\ units[u].invoked = << resourceTemplateHandlers[TemplateX] >>
           /\ units[v].invoked = << resourceTemplateHandlers[TemplateY] >>
           /\ units[u].hparams = Match(resourceTemplates[TemplateX], UriC)
           /\ units[v].hparams = Match(resourceTemplates[TemplateY], UriC)
           /\ units[u].hparams # units[v].hparams
           /\ Len(units[u].out) = 1 /\ Len(units[v].out) = 1

====
